---------------------------- MODULE Spec2Model ----------------------------
(***************************************************************************)
(* Tournament-schedule parsing subsystem of wsop-2026-scheduler.           *)
(*                                                                         *)
(* Text is modelled at character level: a JavaScript string is a sequence  *)
(* of one-character strings, so that substring tests, word boundaries and  *)
(* the regular expressions of the parsers are computed, not assumed.       *)
(* null / undefined is the empty sequence Null, a present value v is the   *)
(* one-element sequence <<v>>.  Percentages are kept in hundredths of a    *)
(* percent (12.25 % is 1225) so that the arithmetic stays in the integers. *)
(***************************************************************************)
EXTENDS Integers, Sequences, FiniteSets, TLC

VARIABLES
    pc,          \* position of the call under study
    buyin,       \* getWSOPRake: argument buyin
    eventNumber, \* getWSOPRake: argument eventNumber ("" modelled as <<>>)
    rake,        \* getWSOPRake: returned object
    eventName,   \* classifyGameVariant: argument eventName
    gameVariant, \* classifyGameVariant: returned label
    text,        \* parseWSOP2025Schedule: argument text, as its lines
    pageSections, \* parsePage: the sections found in each page parsed
    tournaments, \* parseWSOP2025Schedule, parseGenericSchedule: returned list
    venueOption, \* parseGenericSchedule: options.venue (null modelled as <<>>)
    currentYear, \* the year new Date().getFullYear() returns during the call
    rowFacts,    \* parseRow: what was extracted from each row
    dataLines,   \* parseGenericSchedule: the data lines collected by step 2
    parsedRows,  \* parseGenericSchedule: the records before step 5 links them
    repeatYear,  \* the year new Date().getFullYear() returns during a second call
    repeated,    \* the list a second call on the same text returns
    format,      \* detectFormat: returned choice
    shareRequests,     \* database: the rows of share_requests
    nextShareId,       \* database: the next AUTOINCREMENT id of share_requests
    shareTokens,       \* database: the rows of share_tokens
    userSchedules,     \* database: the rows of user_schedules
    scheduleConditions, \* database: the rows of schedule_conditions
    nextConditionId,   \* database: the next AUTOINCREMENT id of schedule_conditions
    tournamentRows,    \* database: the rows of tournaments
    nextTournamentId,  \* database: the next AUTOINCREMENT id of tournaments
    response,          \* the request last served and the response sent
    dbFile,            \* the database file: the snapshot last written to it
    writes,            \* the writes of saveDatabase that are in flight
    scan,              \* findSections: section, eventNameBuffer and result
    scanLine,          \* findSections: the line the loop processed last
    scanPos            \* findSections: the number of lines processed

vars == <<pc, buyin, eventNumber, rake, eventName, gameVariant,
          text, pageSections, tournaments, venueOption, currentYear, rowFacts,
          dataLines, parsedRows, repeatYear, repeated, format,
          shareRequests, nextShareId, shareTokens, userSchedules,
          scheduleConditions, nextConditionId, tournamentRows, nextTournamentId, response,
          dbFile, writes, scan, scanLine, scanPos>>

rakeVars == <<buyin, eventNumber, rake>>

classifyVars == <<eventName, gameVariant>>

\* the variables of a component that takes no part in a specification
IdleRake == buyin = 0 /\ eventNumber = <<>> /\ rake = <<>>

IdleClassify == eventName = <<>> /\ gameVariant = <<>>

columnarVars == <<text, pageSections, tournaments>>

IdleColumnar == text = <<>> /\ pageSections = <<>> /\ tournaments = <<>>

genericVars == <<venueOption, currentYear, rowFacts, dataLines, parsedRows>>

IdleGeneric ==
    /\ venueOption = <<>> /\ currentYear = 0 /\ rowFacts = <<>>
    /\ dataLines = <<>> /\ parsedRows = <<>>

repeatVars == <<repeatYear, repeated>>

IdleRepeat == repeatYear = 0 /\ repeated = <<>>

IdleDetect == format = <<>>

shareVars == <<shareRequests, nextShareId, shareTokens>>

scheduleVars ==
    <<userSchedules, scheduleConditions, nextConditionId, tournamentRows, nextTournamentId>>

saveVars == <<dbFile, writes>>

scanVars == <<scan, scanLine, scanPos>>

serverVars == <<shareVars, scheduleVars, response, saveVars, scanVars>>

IdleShare == shareRequests = {} /\ nextShareId = 1 /\ shareTokens = {}

IdleSchedule ==
    /\ userSchedules = {} /\ scheduleConditions = {} /\ nextConditionId = 1
    /\ tournamentRows = {} /\ nextTournamentId = 1

IdleSave == dbFile = <<>> /\ writes = {}

IdleScan == scan = <<>> /\ scanLine = <<>> /\ scanPos = 0

IdleServer == IdleShare /\ IdleSchedule /\ response = <<>> /\ IdleSave /\ IdleScan

parserVars ==
    <<rakeVars, classifyVars, columnarVars, genericVars, repeatVars, format>>

IdleParsers ==
    /\ IdleRake /\ IdleClassify /\ IdleColumnar /\ IdleGeneric /\ IdleRepeat
    /\ IdleDetect

---------------------------------------------------------------------------
(* Optional values *)

\* body(v), with the value v computed once: const v = ...
Bind(v, body(_)) == body(v)

Null == <<>>

Some(v) == <<v>>

IsNull(o) == o = <<>>

---------------------------------------------------------------------------
(* Characters and strings *)

UpperChars ==
    <<"A","B","C","D","E","F","G","H","I","J","K","L","M",
      "N","O","P","Q","R","S","T","U","V","W","X","Y","Z">>

LowerChars ==
    <<"a","b","c","d","e","f","g","h","i","j","k","l","m",
      "n","o","p","q","r","s","t","u","v","w","x","y","z">>

UpperSet == {UpperChars[i] : i \in 1..26}

LowerSet == {LowerChars[i] : i \in 1..26}

DigitChars == <<"0","1","2","3","4","5","6","7","8","9">>

DigitSet == {DigitChars[i] : i \in 1..10}

LowerMap == [c \in UpperSet |-> LowerChars[CHOOSE i \in 1..26 : UpperChars[i] = c]]

UpperMap == [c \in LowerSet |-> UpperChars[CHOOSE i \in 1..26 : LowerChars[i] = c]]

DigitMap == [c \in DigitSet |-> (CHOOSE i \in 1..10 : DigitChars[i] = c) - 1]

ToLowerChar(c) == IF c \in UpperSet THEN LowerMap[c] ELSE c

ToUpperChar(c) == IF c \in LowerSet THEN UpperMap[c] ELSE c

\* String.prototype.toLowerCase / toUpperCase
ToLower(s) == [i \in 1..Len(s) |-> ToLowerChar(s[i])]

ToUpper(s) == [i \in 1..Len(s) |-> ToUpperChar(s[i])]

\* regular-expression classes \d, \w, \s
IsDigit(c) == c \in DigitSet

IsWordChar(c) == c \in DigitSet \/ c \in UpperSet \/ c \in LowerSet \/ c = "_"

IsSpace(c) == c \in {" ", "\t", "\n"}

\* lit occurs in s starting at (1-based) position i
MatchAt(s, i, lit) ==
    /\ i >= 1
    /\ i + Len(lit) - 1 <= Len(s)
    /\ \A j \in 1..Len(lit) : s[i + j - 1] = lit[j]

\* the same, ignoring case (lit given in lower case): the /i flag
MatchAtCI(s, i, lit) ==
    /\ i >= 1
    /\ i + Len(lit) - 1 <= Len(s)
    /\ \A j \in 1..Len(lit) : ToLowerChar(s[i + j - 1]) = lit[j]

\* String.prototype.includes
Includes(s, lit) == \E i \in 1..(Len(s) - Len(lit) + 1) : MatchAt(s, i, lit)

\* \b at position i of s: exactly one of the characters before and at i is
\* a word character
WordBoundary(s, i) ==
    (i >= 2 /\ i - 1 <= Len(s) /\ IsWordChar(s[i - 1]))
        # (i >= 1 /\ i <= Len(s) /\ IsWordChar(s[i]))

\* parseInt of a string of decimal digits
RECURSIVE ParseDigits(_)
ParseDigits(s) ==
    IF Len(s) = 0 THEN 0
    ELSE 10 * ParseDigits(SubSeq(s, 1, Len(s) - 1)) + DigitMap[s[Len(s)]]

---------------------------------------------------------------------------
(* Rake / fee engine: getWSOPRake *)

Tier(e, d, t) == [entryFeePct |-> e, dealerStaffPct |-> d, totalPct |-> t]

\* const WSOP_RAKE_BY_BUYIN, percentages in hundredths of a percent
WSOP_RAKE_BY_BUYIN ==
    (300    :> Tier(1260, 540, 1800)) @@
    (400    :> Tier(1225, 525, 1750)) @@
    (500    :> Tier(1190, 510, 1700)) @@
    (550    :> Tier(1190, 510, 1700)) @@
    (600    :> Tier(1120, 480, 1600)) @@
    (800    :> Tier(875, 375, 1250)) @@
    (1000   :> Tier(840, 360, 1200)) @@
    (1500   :> Tier(805, 345, 1150)) @@
    (1700   :> Tier(805, 345, 1150)) @@
    (2000   :> Tier(770, 330, 1100)) @@
    (2500   :> Tier(770, 330, 1100)) @@
    (3000   :> Tier(770, 330, 1100)) @@
    (5000   :> Tier(560, 240, 800)) @@
    (10000  :> Tier(490, 210, 700)) @@
    (25000  :> Tier(420, 180, 600)) @@
    (50000  :> Tier(350, 150, 500)) @@
    (100000 :> Tier(280, 120, 400)) @@
    (250000 :> Tier(140, 60, 200))

\* const WSOP_RAKE_OVERRIDES, keyed by the event-number string
WSOP_RAKE_OVERRIDES == (<<"5","9">> :> Tier(700, 300, 1000))

\* Math.round(buyin * pct / 100): the nearest integer, halves rounded up.
\* In exact arithmetic; IEEE doubles give the same value for every buy-in
\* below 163875.
RoundPct(b, pct) == (2 * b * pct + 10000) \div 20000

\* mutant: the prize pool is what is left after the house fee only
RakeOf_PoolLessHouseFee(b, tier) ==
    LET rakeDollars == RoundPct(b, tier.totalPct)
        houseFee    == RoundPct(b, tier.entryFeePct)
        dealerStaff == RoundPct(b, tier.dealerStaffPct)
    IN  [rakePct     |-> Some(tier.totalPct),
         rakeDollars |-> Some(rakeDollars),
         prizePool   |-> Some(b - houseFee),
         houseFee    |-> Some(houseFee),
         optAddOn    |-> Some(dealerStaff)]

\* the object built from a resolved tier (lines 45-54, 60-69, 85-94)
RakeOf(b, tier) ==
    LET rakeDollars == RoundPct(b, tier.totalPct)
        houseFee    == RoundPct(b, tier.entryFeePct)
        dealerStaff == RoundPct(b, tier.dealerStaffPct)
    IN  [rakePct     |-> Some(tier.totalPct),
         rakeDollars |-> Some(rakeDollars),
         prizePool   |-> Some(b - rakeDollars),
         houseFee    |-> Some(houseFee),
         optAddOn    |-> Some(dealerStaff)]

NullRake ==
    [rakePct |-> Null, rakeDollars |-> Null, prizePool |-> Null,
     houseFee |-> Null, optAddOn |-> Null]

\* Object.keys(table).map(Number).sort((a, b) => a - b)
RECURSIVE SortedKeys(_)
SortedKeys(S) ==
    IF S = {} THEN <<>>
    ELSE LET m == CHOOSE x \in S : \A y \in S : x <= y
         IN  <<m>> \o SortedKeys(S \ {m})

\* for (const t of tiers) { if (t <= buyin) bestTier = t; else break; }
RECURSIVE BestTierLoop(_, _, _, _)
BestTierLoop(tiers, i, b, bestTier) ==
    IF i > Len(tiers) THEN bestTier
    ELSE IF tiers[i] <= b THEN BestTierLoop(tiers, i + 1, b, Some(tiers[i]))
    ELSE bestTier

\* the fallback without the step that takes the lowest tier for a buy-in
\* below every tier
RakeFallback_NoLowestTier(table, b) ==
    LET tiers == SortedKeys(DOMAIN table)
        bestTier == BestTierLoop(tiers, 1, b, Null)
    IN  IF ~IsNull(bestTier) THEN RakeOf(b, table[bestTier[1]]) ELSE NullRake

\* the fallback of lines 72-97 over a tier table
RakeFallback(table, b) ==
    LET tiers == SortedKeys(DOMAIN table)
        loop  == BestTierLoop(tiers, 1, b, Null)
        bestTier == IF IsNull(loop) /\ Len(tiers) > 0 THEN Some(tiers[1]) ELSE loop
    IN  IF ~IsNull(bestTier) THEN RakeOf(b, table[bestTier[1]]) ELSE NullRake

\* mutant: the buy-in tier is looked up before the event-number override
getWSOPRake_TierFirst(b, ev) ==
    IF b \in DOMAIN WSOP_RAKE_BY_BUYIN
    THEN RakeOf(b, WSOP_RAKE_BY_BUYIN[b])
    ELSE IF ev # <<>> /\ ev \in DOMAIN WSOP_RAKE_OVERRIDES
    THEN RakeOf(b, WSOP_RAKE_OVERRIDES[ev])
    ELSE RakeFallback(WSOP_RAKE_BY_BUYIN, b)

getWSOPRake(b, ev) ==
    IF ev # <<>> /\ ev \in DOMAIN WSOP_RAKE_OVERRIDES
    THEN RakeOf(b, WSOP_RAKE_OVERRIDES[ev])
    ELSE IF b \in DOMAIN WSOP_RAKE_BY_BUYIN
    THEN RakeOf(b, WSOP_RAKE_BY_BUYIN[b])
    ELSE RakeFallback(WSOP_RAKE_BY_BUYIN, b)

---------------------------------------------------------------------------
(* Game variant classifier: classifyGameVariant *)

\* String.prototype.indexOf(ch), 0-based, -1 when absent
IndexOfChar(s, ch) ==
    IF \E i \in 1..Len(s) : s[i] = ch
    THEN (CHOOSE i \in 1..Len(s) : s[i] = ch /\ \A j \in 1..(i - 1) : s[j] # ch) - 1
    ELSE -1

\* String.prototype.substring(0, n)
Substring0(s, n) == SubSeq(s, 1, n)

\* the position after an optional character of set cs at position p
\* (x? before an item that cannot itself start with a character of cs)
SkipOpt(s, p, cs) == IF p <= Len(s) /\ s[p] \in cs THEN p + 1 ELSE p

\* the position after a greedy run of white space from position p: \s*
RECURSIVE SkipSpaces(_, _)
SkipSpaces(s, p) ==
    IF p <= Len(s) /\ IsSpace(s[p]) THEN SkipSpaces(s, p + 1) ELSE p

\* /\bt\.?o\.?r\.?s\.?e\.?\b/ matching at position i
TorseAt(s, i) ==
    /\ WordBoundary(s, i)
    /\ MatchAt(s, i, <<"t">>)
    /\ LET p1 == SkipOpt(s, i + 1, {"."}) IN
       /\ MatchAt(s, p1, <<"o">>)
       /\ LET p2 == SkipOpt(s, p1 + 1, {"."}) IN
          /\ MatchAt(s, p2, <<"r">>)
          /\ LET p3 == SkipOpt(s, p2 + 1, {"."}) IN
             /\ MatchAt(s, p3, <<"s">>)
             /\ LET p4 == SkipOpt(s, p3 + 1, {"."}) IN
                /\ MatchAt(s, p4, <<"e">>)
                /\ \/ WordBoundary(s, SkipOpt(s, p4 + 1, {"."}))
                   \/ WordBoundary(s, p4 + 1)

ReTorse(s) == \E i \in 1..Len(s) : TorseAt(s, i)

\* /^mixed[:\s]/
ReMixedStart(s) ==
    /\ MatchAt(s, 1, <<"m","i","x","e","d">>)
    /\ Len(s) >= 6
    /\ (s[6] = ":" \/ IsSpace(s[6]))

\* /\bmixed game/
ReMixedGame(s) ==
    \E i \in 1..Len(s) : WordBoundary(s, i) /\ MatchAt(s, i, <<"m","i","x","e","d"," ","g","a","m","e">>)

\* /\bplo\s*8\b/
RePlo8(s) ==
    \E i \in 1..Len(s) :
        /\ WordBoundary(s, i)
        /\ MatchAt(s, i, <<"p","l","o">>)
        /\ LET p == SkipSpaces(s, i + 3) IN
           MatchAt(s, p, <<"8">>) /\ WordBoundary(s, p + 1)

\* /\bplo\b/
RePlo(s) ==
    \E i \in 1..Len(s) :
        WordBoundary(s, i) /\ MatchAt(s, i, <<"p","l","o">>) /\ WordBoundary(s, i + 3)

\* /\bbig[- ]?o\b/
ReBigO(s) ==
    \E i \in 1..Len(s) :
        /\ WordBoundary(s, i)
        /\ MatchAt(s, i, <<"b","i","g">>)
        /\ LET p == SkipOpt(s, i + 3, {"-", " "}) IN
           MatchAt(s, p, <<"o">>) /\ WordBoundary(s, p + 1)

\* the labels returned by the classifier
DealersChoice == <<"D","e","a","l","e","r","s"," ","C","h","o","i","c","e">>

MixedGames == <<"M","i","x","e","d"," ","G","a","m","e","s">>

HORSE == <<"H",".","O",".","R",".","S",".","E",".">>

TORSE == <<"T",".","O",".","R",".","S",".","E",".">>

PLO == <<"P","L","O">>

PLOHiLo == <<"P","L","O"," ","H","i","-","L","o">>

FiveCardPLO == <<"5","-","C","a","r","d"," ","P","L","O">>

BigO == <<"B","i","g"," ","O">>

OmahaHiLo == <<"O","m","a","h","a"," ","H","i","-","L","o">>

TripleDraw27 == <<"2","-","7"," ","T","r","i","p","l","e"," ","D","r","a","w">>

Lowball27 == <<"2","-","7"," ","L","o","w","b","a","l","l">>

StudHiLo == <<"S","t","u","d"," ","H","i","-","L","o">>

SevenCardStud == <<"7","-","C","a","r","d"," ","S","t","u","d">>

Razz == <<"R","a","z","z">>

Badugi == <<"B","a","d","u","g","i">>

LimitHoldem == <<"L","i","m","i","t"," ","H","o","l","d","e","m">>

NLHE == <<"N","L","H","E">>

\* let main = eventName; if (semi > 0) main = eventName.substring(0, semi)
MainName(name) ==
    LET semi == IndexOfChar(name, ";")
    IN  IF semi > 0 THEN Substring0(name, semi) ELSE name

\* the ordered tests of lines 349-372 on the lower-cased main name
ClassifyLower(lower) ==
    IF Includes(lower, <<"d","e","a","l","e","r","s"," ","c","h","o","i","c","e">>) THEN DealersChoice
    ELSE IF \/ Includes(lower, <<"8","-","g","a","m","e">>)
            \/ Includes(lower, <<"8"," ","g","a","m","e"," ","m","i","x">>)
            \/ Includes(lower, <<"n","i","n","e"," ","g","a","m","e">>) THEN MixedGames
    ELSE IF Includes(lower, <<"h",".","o",".","r",".","s",".","e">>) THEN HORSE
    ELSE IF ReTorse(lower) \/ Includes(lower, <<"t","o","r","s","e">>) THEN TORSE
    ELSE IF Includes(lower, <<"m","i","x","e","d"," ","p","l","o">>) THEN PLO
    ELSE IF ReMixedStart(lower) \/ ReMixedGame(lower) THEN MixedGames
    ELSE IF \/ Includes(lower, <<"p","o","t","-","l","i","m","i","t"," ","o","m","a","h","a"," ","h","i","-","l","o">>)
            \/ Includes(lower, <<"p","l","o"," ","h","i","-","l","o">>) THEN PLOHiLo
    ELSE IF RePlo8(lower) \/ Includes(lower, <<"p","l","o"," ","h","i","/","l","o">>) THEN PLOHiLo
    ELSE IF \/ Includes(lower, <<"5"," ","c","a","r","d"," ","p","l","o">>)
            \/ Includes(lower, <<"5","-","c","a","r","d"," ","p","l","o">>) THEN FiveCardPLO
    ELSE IF Includes(lower, <<"p","o","t","-","l","i","m","i","t"," ","o","m","a","h","a">>) \/ RePlo(lower) THEN PLO
    ELSE IF ReBigO(lower) THEN BigO
    ELSE IF Includes(lower, <<"o","m","a","h","a"," ","h","i","-","l","o">>) THEN OmahaHiLo
    ELSE IF Includes(lower, <<"2","-","7">>) /\ Includes(lower, <<"t","r","i","p","l","e"," ","d","r","a","w">>) THEN TripleDraw27
    ELSE IF Includes(lower, <<"2","-","7">>) /\ Includes(lower, <<"l","o","w","b","a","l","l">>) THEN Lowball27
    ELSE IF Includes(lower, <<"s","t","u","d"," ","h","i","-","l","o">>) THEN StudHiLo
    ELSE IF Includes(lower, <<"s","e","v","e","n"," ","c","a","r","d"," ","s","t","u","d">>) THEN SevenCardStud
    ELSE IF Includes(lower, <<"r","a","z","z">>) THEN Razz
    ELSE IF Includes(lower, <<"b","a","d","u","g","i">>) THEN Badugi
    ELSE IF Includes(lower, <<"l","i","m","i","t"," ","h","o","l","d">>) /\ ~Includes(lower, <<"n","o","-","l","i","m","i","t">>) THEN LimitHoldem
    ELSE NLHE

\* mutant: no default label, a name that matches no test yields no value
classifyGameVariant_NoDefault(name) ==
    LET label == ClassifyLower(ToLower(MainName(name)))
    IN  IF label = NLHE THEN Null ELSE label

classifyGameVariant(name) == ClassifyLower(ToLower(MainName(name)))

---------------------------------------------------------------------------
(* Specification of the rake engine: one call of getWSOPRake *)

MaxBuyin == 1200

TierKeys == DOMAIN WSOP_RAKE_BY_BUYIN

\* buy-ins: every amount up to MaxBuyin, and every tier key with its neighbours
BuyinInputs ==
    (1..MaxBuyin) \cup TierKeys \cup {k - 1 : k \in TierKeys} \cup {k + 1 : k \in TierKeys}

\* event numbers: none, the override key, a flight of it, others
EventNumberInputs == {<<>>, <<"5","9">>, <<"5","9","A">>, <<"1","4">>, <<"5">>}

InitRake ==
    /\ pc = "rake_call"
    /\ buyin \in BuyinInputs
    /\ eventNumber \in EventNumberInputs
    /\ rake = NullRake
    /\ IdleClassify /\ IdleColumnar /\ IdleGeneric /\ IdleRepeat /\ IdleDetect /\ IdleServer

CallGetWSOPRake ==
    /\ pc = "rake_call"
    /\ rake' = getWSOPRake(buyin, eventNumber)
    /\ pc' = "rake_done"
    /\ UNCHANGED <<buyin, eventNumber, classifyVars, columnarVars, genericVars, repeatVars, format, serverVars>>

NextRake == CallGetWSOPRake

SpecRake == InitRake /\ [][NextRake]_vars

---------------------------------------------------------------------------
(* Claims about the rake engine, checked under SpecRake *)

RakeDone == pc = "rake_done"

AbsDiff(a, b) == IF a >= b THEN a - b ELSE b - a

\* C1: for every positive buy-in and every event number, the result of
\* getWSOPRake has prizePool + rakeDollars = buyin, and houseFee + optAddOn
\* differs from rakeDollars by at most 1, whichever tier was resolved.
C1_RakeInvariant ==
    RakeDone =>
        /\ ~IsNull(rake.prizePool) /\ ~IsNull(rake.rakeDollars)
        /\ ~IsNull(rake.houseFee) /\ ~IsNull(rake.optAddOn)
        /\ rake.prizePool[1] + rake.rakeDollars[1] = buyin
        /\ AbsDiff(rake.houseFee[1] + rake.optAddOn[1], rake.rakeDollars[1]) <= 1

\* a fallback tier was resolved and the two sub-fees, rounded independently,
\* do not add up to the rounded total
C1_Witness ==
    /\ RakeDone
    /\ eventNumber = <<>>
    /\ buyin \notin TierKeys
    /\ rake.houseFee[1] + rake.optAddOn[1] # rake.rakeDollars[1]

\* the tier the lookup order of the claim names, stated without the loop
ExpectedTier(b, ev) ==
    IF ev \in DOMAIN WSOP_RAKE_OVERRIDES THEN WSOP_RAKE_OVERRIDES[ev]
    ELSE IF b \in TierKeys THEN WSOP_RAKE_BY_BUYIN[b]
    ELSE IF \E k \in TierKeys : k <= b
    THEN WSOP_RAKE_BY_BUYIN[CHOOSE k \in TierKeys :
                                k <= b /\ \A j \in TierKeys : j <= b => j <= k]
    ELSE WSOP_RAKE_BY_BUYIN[300]

\* r is b * pct / 100 rounded to the nearest integer, halves up
IsRounded(r, b, pct) ==
    /\ 20000 * r <= 2 * b * pct + 10000
    /\ 2 * b * pct + 10000 < 20000 * (r + 1)

\* C2: the tier is the override of the event number when there is one,
\* else the tier whose key equals the buy-in, else the highest key <= buy-in,
\* else the lowest tier (300); (500, none) gives 85 / 415, (500, "59") gives
\* 50 / 450, (275, none) uses the percentages of the 300 tier on 275.
C2_TierResolution ==
    RakeDone =>
        LET t == ExpectedTier(buyin, eventNumber) IN
        /\ rake.rakePct = <<t.totalPct>>
        /\ IsRounded(rake.rakeDollars[1], buyin, t.totalPct)
        /\ IsRounded(rake.houseFee[1], buyin, t.entryFeePct)
        /\ IsRounded(rake.optAddOn[1], buyin, t.dealerStaffPct)
        /\ rake.prizePool = <<buyin - rake.rakeDollars[1]>>
        /\ (buyin = 500 /\ eventNumber = <<>>) =>
               rake.rakeDollars = <<85>> /\ rake.prizePool = <<415>>
        /\ (buyin = 500 /\ eventNumber = <<"5","9">>) =>
               rake.rakeDollars = <<50>> /\ rake.prizePool = <<450>>
        /\ (buyin = 275 /\ eventNumber = <<>>) =>
               /\ rake.rakePct = <<1800>>
               /\ rake.rakeDollars = <<50>> /\ rake.prizePool = <<225>>
               /\ rake.houseFee = <<35>> /\ rake.optAddOn = <<15>>

\* the override is used although the buy-in is itself a tier key
C2_Witness ==
    /\ RakeDone
    /\ buyin = 500 /\ eventNumber = <<"5","9">>
    /\ rake.rakePct = <<1000>> /\ rake.rakeDollars = <<50>>

---------------------------------------------------------------------------
(* Specification of the classifier: a call of classifyGameVariant on an    *)
(* event name, then a second call on the label the first one returned      *)

Labels ==
    {DealersChoice, MixedGames, HORSE, TORSE, PLO, PLOHiLo, FiveCardPLO, BigO,
     OmahaHiLo, TripleDraw27, Lowball27, StudHiLo, SevenCardStud, Razz, Badugi,
     LimitHoldem, NLHE}

\* pieces of event names; a name is the concatenation of up to MaxNameParts
\* the pieces are: "Dealers Choice" | "8-Game Mix" | "Nine Game" |
\* "H.O.R.S.E." | "T.O.R.S.E" | "Mixed " | "Mixed: " | "Mixed Game" |
\* "Mixed PLO" | "PLO" | "PLO 8" | " Hi-Lo" | "5-Card PLO" | "Pot-Limit
\* Omaha" | "Omaha Hi-Lo" | "Big O" | "2-7 Triple Draw" | "2-7 Lowball" |
\* "Stud Hi-Lo" | "Seven Card Stud" | "RAZZ" | "Badugi" | "Limit Hold'em"
\* | "No-" | "No-Limit Hold'em" | ";" | "; " | " " | "s" | "MAIN EVENT "
NameParts ==
    {<<"D","e","a","l","e","r","s"," ","C","h","o","i","c","e">>,
     <<"8","-","G","a","m","e"," ","M","i","x">>,
     <<"N","i","n","e"," ","G","a","m","e">>,
     <<"H",".","O",".","R",".","S",".","E",".">>,
     <<"T",".","O",".","R",".","S",".","E">>,
     <<"M","i","x","e","d"," ">>,
     <<"M","i","x","e","d",":"," ">>,
     <<"M","i","x","e","d"," ","G","a","m","e">>,
     <<"M","i","x","e","d"," ","P","L","O">>,
     <<"P","L","O">>,
     <<"P","L","O"," ","8">>,
     <<" ","H","i","-","L","o">>,
     <<"5","-","C","a","r","d"," ","P","L","O">>,
     <<"P","o","t","-","L","i","m","i","t"," ","O","m","a","h","a">>,
     <<"O","m","a","h","a"," ","H","i","-","L","o">>,
     <<"B","i","g"," ","O">>,
     <<"2","-","7"," ","T","r","i","p","l","e"," ","D","r","a","w">>,
     <<"2","-","7"," ","L","o","w","b","a","l","l">>,
     <<"S","t","u","d"," ","H","i","-","L","o">>,
     <<"S","e","v","e","n"," ","C","a","r","d"," ","S","t","u","d">>,
     <<"R","A","Z","Z">>,
     <<"B","a","d","u","g","i">>,
     <<"L","i","m","i","t"," ","H","o","l","d","'","e","m">>,
     <<"N","o","-">>,
     <<"N","o","-","L","i","m","i","t"," ","H","o","l","d","'","e","m">>,
     <<";">>,
     <<";"," ">>,
     <<" ">>,
     <<"s">>,
     <<"M","A","I","N"," ","E","V","E","N","T"," ">>}

MaxNameParts == 2

RECURSIVE Concat(_)
Concat(parts) ==
    IF Len(parts) = 0 THEN <<>> ELSE Head(parts) \o Concat(Tail(parts))

\* names as schedules spell them: no-limit without its hyphen, pot-limit
\* Omaha eight-or-better with a hyphen, a mix of PLO and Omaha Hi-Lo
SpelledNames ==
    {<<"N","o"," ","L","i","m","i","t"," ","H","o","l","d","'","e","m">>, <<"P","L","O","-","8">>, <<"P","L","O"," ","8">>, <<"M","i","x","e","d"," ","P","L","O","/","O","m","a","h","a"," ","H","i","-","L","o">>, <<"P","L","O"," ","/"," ","O","m","a","h","a"," ","H","i","-","L","o">>}

NameInputs ==
    Labels \cup SpelledNames \cup
    {Concat(ps) : ps \in UNION {[1..n -> NameParts] : n \in 0..MaxNameParts}}

InitClassify ==
    /\ pc = "classify_call"
    /\ eventName \in NameInputs
    /\ gameVariant = <<>>
    /\ IdleRake /\ IdleColumnar /\ IdleGeneric /\ IdleRepeat /\ IdleDetect /\ IdleServer

CallClassifyGameVariant ==
    /\ pc = "classify_call"
    /\ gameVariant' = classifyGameVariant(eventName)
    /\ pc' = "classify_done"
    /\ UNCHANGED <<eventName, rakeVars, columnarVars, genericVars, repeatVars, format, serverVars>>

\* the classifier run again on its own output label
CallClassifyOnLabel ==
    /\ pc = "classify_done"
    /\ eventName' = gameVariant
    /\ gameVariant' = classifyGameVariant(gameVariant)
    /\ pc' = "classify_again"
    /\ UNCHANGED <<rakeVars, columnarVars, genericVars, repeatVars, format, serverVars>>

NextClassify == CallClassifyGameVariant \/ CallClassifyOnLabel

SpecClassify == InitClassify /\ [][NextClassify]_vars

---------------------------------------------------------------------------
(* Claims about the classifier, checked under SpecClassify *)

ClassifyReturned == pc \in {"classify_done", "classify_again"}

\* C3: for every event name, the empty one included, classifyGameVariant
\* returns exactly one label of the fixed set of seventeen labels, never a
\* null or empty value, and NLHE when no test matches.
C3_LabelInFixedSet ==
    ClassifyReturned =>
        /\ gameVariant \in Labels
        /\ gameVariant # <<>>
        /\ eventName \in {<<>>, <<" ">>, <<"s">>, <<"M","A","I","N"," ","E","V","E","N","T"," ">>, <<"N","o","-">>} => gameVariant = NLHE

\* the empty name was classified, by the default
C3_Witness ==
    /\ pc = "classify_done"
    /\ eventName = <<>>
    /\ gameVariant = NLHE

\* C4: the classifier is idempotent on its labels: for every label L it can
\* return, classifyGameVariant(L) = L.
C4_Idempotent ==
    pc = "classify_again" => gameVariant = eventName

\* the lower-cased name up to its first semicolon has one of the markers
HasMarker(markers) ==
    \E m \in markers : Includes(ToLower(MainName(eventName)), m)

\* the lower-cased name up to its first semicolon has one of the markers as
\* a word: at its start or after a space
NamesFormat(markers) ==
    \E m \in markers :
        \/ MatchAt(ToLower(MainName(eventName)), 1, m)
        \/ Includes(ToLower(MainName(eventName)), <<" ">> \o m)

\* C35: a specific label is never masked by a more generic one: a name with
\* Dealers Choice, H.O.R.S.E. or T.O.R.S.E. is not labelled Mixed Games
\* unless it also names 8-Game or nine game, whose own label that is; a name
\* with an Omaha Hi-Lo or PLO-8 marker is not labelled PLO; a no-limit
\* hold'em name is not labelled Limit Holdem
C35_NoMasking ==
    pc = "classify_done" =>
        /\ (/\ NamesFormat({<<"d","e","a","l","e","r","s"," ","c","h","o","i","c","e">>, <<"h",".","o",".","r",".","s",".","e">>, <<"t",".","o",".","r",".","s",".","e">>})
            /\ ~HasMarker({<<"8","-","g","a","m","e">>, <<"8"," ","g","a","m","e"," ","m","i","x">>, <<"n","i","n","e"," ","g","a","m","e">>}))
               => gameVariant # MixedGames
        /\ HasMarker({<<"o","m","a","h","a"," ","h","i","-","l","o">>, <<"p","l","o","-","8">>, <<"p","l","o"," ","8">>, <<"p","l","o","8">>})
               => gameVariant # PLO
        /\ HasMarker({<<"n","o","-","l","i","m","i","t"," ","h","o","l","d">>, <<"n","o"," ","l","i","m","i","t"," ","h","o","l","d">>})
               => gameVariant # LimitHoldem

---------------------------------------------------------------------------
(* Column reconstructor: findSections, isNewEventName, parsePage,          *)
(* parseWSOP2025Schedule.  A page is a sequence of lines, a line a string. *)

SpaceSet == {" ", "\t", "\n"}

\* the position after the greedy run of characters of cs that starts at p
RunEnd(s, p, cs) ==
    CHOOSE e \in p..(Len(s) + 1) :
        /\ \A k \in p..(e - 1) : s[k] \in cs
        /\ (e = Len(s) + 1 \/ s[e] \notin cs)

\* s without its characters of cs: s.replace(/[cs]/g, '')
RECURSIVE RemoveChars(_, _)
RemoveChars(s, cs) ==
    IF Len(s) = 0 THEN <<>>
    ELSE IF Head(s) \in cs THEN RemoveChars(Tail(s), cs)
    ELSE <<Head(s)>> \o RemoveChars(Tail(s), cs)

\* Number.NaN, the value of parseInt on a string with no leading digit
NaN == -1

\* parseInt(s.replace(/,/g, '')) for s made of digits and commas
ParseIntCommas(s) ==
    Bind(RemoveChars(s, {","}), LAMBDA d : IF Len(d) = 0 THEN NaN ELSE ParseDigits(d))

\* Array.prototype.join(' ')
RECURSIVE JoinSpace(_)
JoinSpace(ls) ==
    IF Len(ls) = 0 THEN <<>>
    ELSE IF Len(ls) = 1 THEN ls[1]
    ELSE ls[1] \o <<" ">> \o JoinSpace(Tail(ls))

\* /^\d+\/\d+$/
RePageNumber(line) ==
    LET e == RunEnd(line, 1, DigitSet) IN
    /\ e > 1
    /\ e <= Len(line) /\ line[e] = "/"
    /\ e + 1 <= Len(line)
    /\ RunEnd(line, e + 1, DigitSet) = Len(line) + 1

\* /^(May|June|July)\s+\d+$/i
ReDateLine(line) ==
    \E m \in {<<"m","a","y">>, <<"j","u","n","e">>, <<"j","u","l","y">>} :
        /\ MatchAtCI(line, 1, m)
        /\ LET p == Len(m) + 1
               q == RunEnd(line, p, SpaceSet)
           IN  /\ q > p
               /\ q <= Len(line)
               /\ RunEnd(line, q, DigitSet) = Len(line) + 1

\* /^\d{1,2}(:\d{2})?\s*(AM|PM)$/i
ReTimeLine(line) ==
    \E n \in 1..2 :
        /\ n <= Len(line)
        /\ \A k \in 1..n : IsDigit(line[k])
        /\ \E p \in {n + 1} \cup
                    (IF /\ n + 3 <= Len(line)
                        /\ line[n + 1] = ":"
                        /\ IsDigit(line[n + 2]) /\ IsDigit(line[n + 3])
                     THEN {n + 4} ELSE {}) :
              LET q == RunEnd(line, p, SpaceSet) IN
              /\ (MatchAtCI(line, q, <<"a","m">>) \/ MatchAtCI(line, q, <<"p","m">>))
              /\ q + 2 = Len(line) + 1

\* the buy-in pushed for a line that starts with "$":
\* m = line.match(/\$([\d,]+)/);  m ? parseInt(m[1].replace(/,/g, '')) : null
BuyinOfLine(line) ==
    LET dc == DigitSet \cup {","}
        hits == {i \in 1..(Len(line) - 1) : line[i] = "$" /\ line[i + 1] \in dc}
    IN  IF hits = {} THEN Null
        ELSE LET i == CHOOSE h \in hits : \A g \in hits : h <= g
             IN  Some(ParseIntCommas(SubSeq(line, i + 1, RunEnd(line, i + 1, dc) - 1)))

\* /^[\d,]+$/
ReChipsLine(line) ==
    Len(line) > 0 /\ \A k \in 1..Len(line) : line[k] \in DigitSet \cup {","}

\* /^[\d\s\/]+$/
ReDurationLine(line) ==
    Len(line) > 0 /\ \A k \in 1..Len(line) : line[k] \in DigitSet \cup SpaceSet \cup {"/"}

\* /^\d+$/
ReAllDigits(line) ==
    Len(line) > 0 /\ \A k \in 1..Len(line) : IsDigit(line[k])

\* /^\d+\s*\/\s*flight/i
RePerFlight(line) ==
    LET e == RunEnd(line, 1, DigitSet)
        p == RunEnd(line, e, SpaceSet)
    IN  /\ e > 1
        /\ p <= Len(line) /\ line[p] = "/"
        /\ MatchAtCI(line, RunEnd(line, p + 1, SpaceSet), <<"f","l","i","g","h","t">>)

\* the acceptance test of the re-entry column (lines 262-264)
ReentryAccepted(line) ==
    \/ ReAllDigits(line)
    \/ RePerFlight(line)
    \/ Includes(ToLower(line), <<"u","n","l","i","m","i","t","e","d">>)
    \/ Includes(ToLower(line), <<"b","u","s","t">>)
    \/ line = <<"0">>

\* /^\d+\s*levels?$/i
ReLevelsLine(line) ==
    LET e == RunEnd(line, 1, DigitSet)
        p == RunEnd(line, e, SpaceSet)
    IN  /\ e > 1
        /\ MatchAtCI(line, p, <<"l","e","v","e","l">>)
        /\ \/ p + 5 = Len(line) + 1
           \/ (p + 5 = Len(line) /\ ToLowerChar(line[p + 5]) = "s")

\* the acceptance test of the late-reg column (line 269)
LateRegAccepted(line) == ReLevelsLine(line) \/ MatchAtCI(line, 1, <<"f","i","r","s","t">>)

\* /^\d{1,3}[A-E]?$/
ReEventNumberLine(line) ==
    \E n \in 1..3 :
        /\ n <= Len(line)
        /\ \A k \in 1..n : IsDigit(line[k])
        /\ \/ Len(line) = n
           \/ (Len(line) = n + 1 /\ line[n + 1] \in {"A", "B", "C", "D", "E"})

\* /^MAIN EVENT\s*-\s*(Day\s+\d|Day\s+Off|Plays|Final)/i
ReMainEventDay(name) ==
    /\ MatchAtCI(name, 1, <<"m","a","i","n"," ","e","v","e","n","t">>)
    /\ LET p == RunEnd(name, 11, SpaceSet) IN
       /\ p <= Len(name) /\ name[p] = "-"
       /\ LET q == RunEnd(name, p + 1, SpaceSet) IN
          \/ /\ MatchAtCI(name, q, <<"d","a","y">>)
             /\ LET r == RunEnd(name, q + 3, SpaceSet) IN
                /\ r > q + 3
                /\ \/ (r <= Len(name) /\ IsDigit(name[r]))
                   \/ MatchAtCI(name, r, <<"o","f","f">>)
          \/ MatchAtCI(name, q, <<"p","l","a","y","s">>)
          \/ MatchAtCI(name, q, <<"f","i","n","a","l">>)

\* /\(\d+-day event\)\s*$/i
ReDayEventAtEnd(s) ==
    \E i \in 1..Len(s) :
        /\ s[i] = "("
        /\ LET e == RunEnd(s, i + 1, DigitSet) IN
           /\ e > i + 1
           /\ MatchAtCI(s, e, <<"-","d","a","y"," ","e","v","e","n","t",")">>)
           /\ RunEnd(s, e + 11, SpaceSet) = Len(s) + 1

\* the starters of isNewEventName that are plain prefixes, in lower case
StarterPrefixes ==
    {<<"m","y","s","t","e","r","y">>, <<"i","n","d","u","s","t","r","y">>, <<"o","m","a","h","a"," ","h","i","-","l","o">>, <<"p","o","t","-","l","i","m","i","t">>, <<"h","e","a","d","s"," ","u","p">>,
     <<"d","e","a","l","e","r","s"," ","c","h","o","i","c","e">>, <<"n","o","-","l","i","m","i","t">>, <<"c","o","l","o","s","s","u","s">>, <<"s","h","o","o","t","o","u","t">>,
     <<"h","i","g","h"," ","r","o","l","l","e","r">>, <<"b","i","g"," ","o">>, <<"s","u","p","e","r"," ","t","u","r","b","o">>, <<"f","r","e","e","z","e","o","u","t">>, <<"m","o","n","s","t","e","r">>,
     <<"s","e","n","i","o","r","s">>, <<"m","i","l","l","i","o","n","a","i","r","e">>, <<"b","a","t","t","l","e">>, <<"s","u","p","e","r"," ","s","e","n","i","o","r","s">>, <<"t","a","g"," ","t","e","a","m">>,
     <<"p","o","k","e","r"," ","p","l","a","y","e","r","s">>, <<"g","l","a","d","i","a","t","o","r","s">>, <<"l","a","d","i","e","s">>, <<"l","i","m","i","t"," ","2","-","7">>,
     <<"l","i","m","i","t"," ","h","o","l","d">>, <<"m","i","n","i">>, <<"p","o","k","e","r","n","e","w","s">>, <<"s","u","m","m","e","r">>, <<"m","a","i","n"," ","e","v","e","n","t">>,
     <<"u","l","t","r","a"," ","s","t","a","c","k">>, <<"m","i","d","-","s","t","a","k","e","s">>, <<"l","u","c","k","y">>, <<"p","o","k","e","r"," ","h","a","l","l">>, <<"t",".","o",".","r",".","s",".","e">>,
     <<"t","h","e"," ","c","l","o","s","e","r">>, <<"h",".","o",".","r",".","s",".","e">>, <<"s","a","l","u","t","e">>, <<"6","-","h","a","n","d","e","d">>, <<"8","-","h","a","n","d","e","d">>}

\* the starters /^Seven Card Stud\s+\(/i, /^Badugi\s+\(/i, /^Razz\s+\(/i
StarterParenPrefixes == {<<"s","e","v","e","n"," ","c","a","r","d"," ","s","t","u","d">>, <<"b","a","d","u","g","i">>, <<"r","a","z","z">>}

\* starters.some(p => p.test(line))
MatchesStarter(line) ==
    \/ \E p \in StarterPrefixes : MatchAtCI(line, 1, p)
    \/ \E p \in StarterParenPrefixes :
          /\ MatchAtCI(line, 1, p)
          /\ LET q == RunEnd(line, Len(p) + 1, SpaceSet) IN
             q > Len(p) + 1 /\ q <= Len(line) /\ line[q] = "("
    \/ LET e == RunEnd(line, 1, DigitSet) IN            \* /^\d+-Handed/i
          e > 1 /\ MatchAtCI(line, e, <<"-","h","a","n","d","e","d">>)
    \/ /\ MatchAtCI(line, 1, <<"m","i","x","e","d">>)                 \* /^Mixed[:\s]/i
       /\ Len(line) >= 6
       /\ (line[6] = ":" \/ IsSpace(line[6]))

\* isNewEventName without the game-list test of lines 318-322
isNewEventName_NoGameListTest(line, buffer) ==
    IF Len(buffer) = 0 THEN TRUE ELSE MatchesStarter(line)

isNewEventName(line, buffer) ==
    IF Len(buffer) = 0 THEN TRUE
    ELSE LET bufferText == JoinSpace(buffer) IN
         IF Includes(bufferText, <<";">>) /\ ~ReDayEventAtEnd(bufferText) THEN FALSE
         ELSE MatchesStarter(line)

\* const result = {...}: the column streams of a page
EmptyResult ==
    [dates |-> <<>>, times |-> <<>>, allBuyins |-> <<>>, chips |-> <<>>,
     durations |-> <<>>, reentries |-> <<>>, lateRegs |-> <<>>,
     eventNames |-> <<>>, eventNumbers |-> <<>>]

\* the state of the scan: let section = null; let eventNameBuffer = []
InitialScan == [section |-> "null", eventNameBuffer |-> <<>>, result |-> EmptyResult]

Push(st, column, value) ==
    [st EXCEPT !.result[column] = Append(@, value)]

\* the header tests of lines 205-229; the scan state after a header line
IsHeaderLine(line) ==
    \/ Includes(line, <<"E","V","E","N","T"," ","N","A","M","E">>) /\ Includes(line, <<"D","A","T","E">>)
    \/ line \in {<<"D","A","Y">>, <<"T","I","M","E">>, <<"B","U","Y","-","I","N">>, <<"S","T","A","R","T","I","N","G">>, <<"C","H","I","P","S">>, <<"L","V","L">>,
                 <<"D","U","R","A","T","I","O","N">>, <<"(","M","I","N","U","T","E","S",")">>, <<"R","E","-","E","N","T","R","Y">>, <<"L","A","T","E">>, <<"R","E","G",".">>,
                 <<"E","V","#">>, <<"W","O","H","L","D"," ","S","E","R","I","E","S">>, <<"P","D","i","<","E","R">>}
    \/ RePageNumber(line)

HeaderStep(st, line) ==
    IF Includes(line, <<"E","V","E","N","T"," ","N","A","M","E">>) /\ Includes(line, <<"D","A","T","E">>)
    THEN [st EXCEPT !.section = "dates"]
    ELSE IF line = <<"D","A","Y">> THEN [st EXCEPT !.section = "days"]
    ELSE IF line = <<"T","I","M","E">> THEN [st EXCEPT !.section = "times"]
    ELSE IF line = <<"B","U","Y","-","I","N">> THEN [st EXCEPT !.section = "buyins"]
    ELSE IF line = <<"S","T","A","R","T","I","N","G">> THEN [st EXCEPT !.section = "chips"]
    ELSE IF line = <<"C","H","I","P","S">> THEN st
    ELSE IF line = <<"L","V","L">> THEN [st EXCEPT !.section = "durations"]
    ELSE IF line = <<"D","U","R","A","T","I","O","N">> \/ line = <<"(","M","I","N","U","T","E","S",")">> THEN st
    ELSE IF line = <<"R","E","-","E","N","T","R","Y">> THEN [st EXCEPT !.section = "reentries"]
    ELSE IF line = <<"L","A","T","E">> THEN [st EXCEPT !.section = "lateRegs"]
    ELSE IF line = <<"R","E","G",".">> THEN st
    ELSE IF line = <<"E","V","#">>
    THEN [section |-> "eventNumbers",
          eventNameBuffer |-> <<>>,
          result |-> IF Len(st.eventNameBuffer) > 0
                     THEN [st.result EXCEPT
                              !.eventNames = Append(@, JoinSpace(st.eventNameBuffer))]
                     ELSE st.result]
    ELSE st   \* a page number, 'WOHLD SERIES' or 'PDi<ER'

\* the first if / else-if chain of the loop body (lines 232-276)
ColumnStep(st, line) ==
    IF st.section = "dates" /\ ReDateLine(line) THEN Push(st, "dates", line)
    ELSE IF st.section = "days" THEN st
    ELSE IF st.section = "times"
    THEN IF ReTimeLine(line) \/ line = <<"T","B","D">>
         THEN Push(st, "times", ToUpper(RemoveChars(line, SpaceSet)))
         ELSE st
    ELSE IF st.section = "buyins"
    THEN IF line = <<"-">> THEN Push(st, "allBuyins", Null)
         ELSE IF MatchAt(line, 1, <<"$">>) THEN Push(st, "allBuyins", BuyinOfLine(line))
         ELSE st
    ELSE IF st.section = "chips"
    THEN IF ReChipsLine(line) \/ line = <<"-">>
         THEN Push(st, "chips", IF line = <<"-">> THEN Null ELSE Some(ParseIntCommas(line)))
         ELSE st
    ELSE IF st.section = "durations"
    THEN IF ReDurationLine(line) \/ line = <<"-">>
         THEN Push(st, "durations", IF line = <<"-">> THEN <<>> ELSE line)
         ELSE st
    ELSE IF st.section = "reentries"
    THEN IF ReentryAccepted(line) THEN Push(st, "reentries", line) ELSE st
    ELSE IF st.section = "lateRegs"
    THEN IF LateRegAccepted(line) THEN Push(st, "lateRegs", line)
         ELSE [st EXCEPT !.section = "eventNames"]
    ELSE st

\* the second if / else-if with an event-number column that takes any line
NameStep_AnyNumber(st, line) ==
    IF st.section = "eventNames"
    THEN IF isNewEventName(line, st.eventNameBuffer)
         THEN [st EXCEPT
                 !.result.eventNames =
                     IF Len(st.eventNameBuffer) > 0
                     THEN Append(@, JoinSpace(st.eventNameBuffer)) ELSE @,
                 !.eventNameBuffer = <<line>>]
         ELSE [st EXCEPT !.eventNameBuffer = Append(@, line)]
    ELSE IF st.section = "eventNumbers"
    THEN Push(st, "eventNumbers", line)
    ELSE st

\* the second if / else-if of the loop body (lines 278-293)
NameStep(st, line) ==
    IF st.section = "eventNames"
    THEN IF isNewEventName(line, st.eventNameBuffer)
         THEN [st EXCEPT
                 !.result.eventNames =
                     IF Len(st.eventNameBuffer) > 0
                     THEN Append(@, JoinSpace(st.eventNameBuffer)) ELSE @,
                 !.eventNameBuffer = <<line>>]
         ELSE [st EXCEPT !.eventNameBuffer = Append(@, line)]
    ELSE IF st.section = "eventNumbers"
    THEN IF ReEventNumberLine(line) THEN Push(st, "eventNumbers", line) ELSE st
    ELSE st

\* the loop body without the header tests of lines 205-229
SectionStep_NoHeaderTests(st, line) == NameStep(ColumnStep(st, line), line)

\* one iteration of the loop of findSections on a line
SectionStep(st, line) ==
    IF IsHeaderLine(line) THEN HeaderStep(st, line)
    ELSE NameStep(ColumnStep(st, line), line)

\* the loop of findSections over lines lo..hi, folded by halves: the state
\* after the first half (always a scan state, whose section is a string) is
\* the state the second half starts from
RECURSIVE ScanLines(_, _, _, _)
ScanLines(st, lines, lo, hi) ==
    IF lo > hi THEN st
    ELSE IF lo = hi THEN SectionStep(st, lines[lo])
    ELSE LET mid  == (lo + hi) \div 2
             half == ScanLines(st, lines, lo, mid)
         IN  IF half.section \in STRING
             THEN ScanLines(half, lines, mid + 1, hi)
             ELSE half

\* the name filter of lines 302-306
KeepName(n) ==
    /\ ~Includes(ToLower(n), <<"r","e","g","i","s","t","r","a","t","i","o","n"," ","o","p","e","n","s">>)
    /\ ~ReMainEventDay(n)

\* result.eventNames.filter(...)
FilterNames(names) == SelectSeq(names, KeepName)

\* the end of findSections without the flush of lines 296-299
FinishScan_NoFinalFlush(st) ==
    [st.result EXCEPT !.eventNames = FilterNames(st.result.eventNames)]

\* the end of findSections: flush the buffer, filter the names (lines 296-312)
FinishScan(st) ==
    LET names == IF Len(st.eventNameBuffer) > 0
                 THEN Append(st.result.eventNames, JoinSpace(st.eventNameBuffer))
                 ELSE st.result.eventNames
    IN  [st.result EXCEPT !.eventNames = FilterNames(names)]

findSections(lines) == FinishScan(ScanLines(InitialScan, lines, 1, Len(lines)))

\* String.prototype.trim
Trim(s) ==
    Bind({k \in 1..Len(s) : ~IsSpace(s[k])}, LAMBDA inked :
        IF inked = {} THEN <<>>
        ELSE SubSeq(s, CHOOSE a \in inked : \A k \in inked : a <= k,
                       CHOOSE b \in inked : \A k \in inked : b >= k))

\* the decimal digits of a natural number: a number inside a template literal
RECURSIVE IntToStr(_)
IntToStr(n) ==
    IF n < 10 THEN <<DigitChars[n + 1]>>
    ELSE IntToStr(n \div 10) \o <<DigitChars[(n % 10) + 1]>>

\* /-- \d+ of \d+ --/ matching at position i of a line; the position after
\* the match, 0 when there is none
PageMarkerEnd(line, i) ==
    IF ~MatchAt(line, i, <<"-","-"," ">>) THEN 0
    ELSE LET e == RunEnd(line, i + 3, DigitSet) IN
         IF e = i + 3 \/ ~MatchAt(line, e, <<" ","o","f"," ">>) THEN 0
         ELSE LET f == RunEnd(line, e + 4, DigitSet) IN
              IF f = e + 4 \/ ~MatchAt(line, f, <<" ","-","-">>) THEN 0
              ELSE f + 3

\* line.split(/-- \d+ of \d+ --/): the pieces of one line
RECURSIVE CutLine(_)
CutLine(line) ==
    LET hits == {i \in 1..Len(line) : PageMarkerEnd(line, i) > 0}
    IN  IF hits = {} THEN <<line>>
        ELSE LET i == CHOOSE h \in hits : \A g \in hits : h <= g
             IN  <<SubSeq(line, 1, i - 1)>>
                 \o CutLine(SubSeq(line, PageMarkerEnd(line, i), Len(line)))

\* text.split(/-- \d+ of \d+ --/) on lines lo..hi of a text given as its
\* lines: the pages, each a sequence of lines; a marker inside a line cuts
\* the line in two. The pages of a range are those of its halves, the last
\* page of the first half running on into the first page of the second
RECURSIVE SplitPages(_, _, _)
SplitPages(lines, lo, hi) ==
    IF lo > hi THEN <<<<>>>>
    ELSE IF lo = hi
    THEN LET pieces == CutLine(lines[lo])
         IN  [k \in 1..Len(pieces) |-> <<pieces[k]>>]
    ELSE LET mid   == (lo + hi) \div 2
             left  == SplitPages(lines, lo, mid)
             right == SplitPages(lines, mid + 1, hi)
         IN  SubSeq(left, 1, Len(left) - 1)
             \o <<left[Len(left)] \o Head(right)>>
             \o Tail(right)

\* p.trim() is non-empty: some line of the page has a non-blank character
PageNotBlank(page) == \E k \in 1..Len(page) : Trim(page[k]) # <<>>

\* page.includes(needle), the needle holding no line break
PageIncludes(page, needle) == \E k \in 1..Len(page) : Includes(page[k], needle)

\* the info pages skipped by parseWSOP2025Schedule (lines 106-108)
IsInfoPage(page) ==
    \/ PageIncludes(page, <<"C","o","n","s","u","l","t"," ","s","t","r","u","c","t","u","r","e"," ","s","h","e","e","t","s">>)
    \/ PageIncludes(page, <<"S","p","e","c","i","a","l","t","y"," ","L","a","n","d","m","a","r","k">>)
    \/ PageIncludes(page, <<"T","a","k","e","-","O","u","t"," ","P","e","r","c","e","n","t","a","g","e","s">>)

\* pageText.split('\n').map(l => l.trim()).filter(l => l)
TrimmedLines(page) ==
    SelectSeq([k \in 1..Len(page) |-> Trim(page[k])], LAMBDA l : l # <<>>)

\* the indices (1-based) of the non-null entries of the buy-in column
RECURSIVE ValidBuyinIndices(_, _)
ValidBuyinIndices(allBuyins, idx) ==
    IF idx > Len(allBuyins) THEN <<>>
    ELSE (IF allBuyins[idx] # Null THEN <<idx>> ELSE <<>>)
         \o ValidBuyinIndices(allBuyins, idx + 1)

\* arr[k] || '' for an array of strings (k 1-based; out of range is undefined)
StringAt(arr, k) == IF k >= 1 /\ k <= Len(arr) THEN arr[k] ELSE <<>>

\* arr[k] || null for an array of numbers and nulls (0 and NaN are falsy)
NumberAt(arr, k) ==
    IF k >= 1 /\ k <= Len(arr) /\ arr[k] # Null /\ arr[k][1] \notin {0, NaN}
    THEN arr[k] ELSE Null

WSOPVenue == <<"W","S","O","P"," ","L","a","s"," ","V","e","g","a","s">>

TBD == <<"T","B","D">>

\* the object pushed by parsePage, with the date and the time taken at the
\* position of the event instead of the position of its table row
PageRecord_DateByEvent(sections, i, rowIdx, b, year) ==
    LET eventNum == sections.eventNumbers[i]
        name     == StringAt(sections.eventNames, i)
        r        == getWSOPRake(b, eventNum)
    IN  [eventNumber   |-> eventNum,
         eventName     |-> name,
         date          |-> IF StringAt(sections.dates, i) # <<>>
                           THEN sections.dates[i] \o <<","," ">> \o IntToStr(year)
                           ELSE <<>>,
         time          |-> IF StringAt(sections.times, i) # <<>>
                           THEN sections.times[i] ELSE TBD,
         buyin         |-> b,
         prizePool     |-> r.prizePool,
         houseFee      |-> r.houseFee,
         optAddOn      |-> r.optAddOn,
         rakePct       |-> r.rakePct,
         rakeDollars   |-> r.rakeDollars,
         startingChips |-> NumberAt(sections.chips, i),
         levelDuration |-> StringAt(sections.durations, i),
         reentry       |-> StringAt(sections.reentries, i),
         lateReg       |-> StringAt(sections.lateRegs, i),
         gameVariant   |-> classifyGameVariant(name),
         venue         |-> WSOPVenue]

\* the object pushed by parsePage for event i at table row rowIdx (lines 160-179)
PageRecord(sections, i, rowIdx, b, year) ==
    LET eventNum == sections.eventNumbers[i]
        name     == StringAt(sections.eventNames, i)
        r        == getWSOPRake(b, eventNum)
    IN  [eventNumber   |-> eventNum,
         eventName     |-> name,
         date          |-> IF StringAt(sections.dates, rowIdx) # <<>>
                           THEN sections.dates[rowIdx] \o <<","," ">> \o IntToStr(year)
                           ELSE <<>>,
         time          |-> IF StringAt(sections.times, rowIdx) # <<>>
                           THEN sections.times[rowIdx] ELSE TBD,
         buyin         |-> b,
         prizePool     |-> r.prizePool,
         houseFee      |-> r.houseFee,
         optAddOn      |-> r.optAddOn,
         rakePct       |-> r.rakePct,
         rakeDollars   |-> r.rakeDollars,
         startingChips |-> NumberAt(sections.chips, i),
         levelDuration |-> StringAt(sections.durations, i),
         reentry       |-> StringAt(sections.reentries, i),
         lateReg       |-> StringAt(sections.lateRegs, i),
         gameVariant   |-> classifyGameVariant(name),
         venue         |-> WSOPVenue]

MinBuyin == 100

\* the test of line 157 without its threshold: !buyin
BuyinDropped_FalsyOnly(b) == b = 0 \/ b = NaN

\* the test that skips an event (line 157): !buyin || buyin < 100
BuyinDropped(b) == b = 0 \/ b = NaN \/ b < MinBuyin

\* the loop of parsePage from event i on (lines 142-180)
RECURSIVE PageLoop(_, _, _, _)
PageLoop(sections, valid, i, year) ==
    IF i > Len(sections.eventNumbers) THEN <<>>
    ELSE LET name == StringAt(sections.eventNames, i)
             rest == PageLoop(sections, valid, i + 1, year)
         IN  IF ReMainEventDay(name) THEN rest
             ELSE IF i > Len(valid) THEN rest
             ELSE LET b == sections.allBuyins[valid[i]][1]
                  IN  IF BuyinDropped(b) THEN rest
                      ELSE <<PageRecord(sections, i, valid[i], b, year)>> \o rest

\* parsePage looping over the valid buy-in rows instead of the event numbers
PageTournaments_PerBuyinRow(sections, year) ==
    LET valid  == ValidBuyinIndices(sections.allBuyins, 1)
        padded == [sections EXCEPT !.eventNumbers =
                      [k \in 1..Len(valid) |-> StringAt(sections.eventNumbers, k)]]
    IN  PageLoop(padded, valid, 1, year)

\* parsePage on the sections found in the page
PageTournaments(sections, year) ==
    IF Len(sections.eventNumbers) = 0 THEN <<>>
    ELSE PageLoop(sections, ValidBuyinIndices(sections.allBuyins, 1), 1, year)

\* the sections parsePage finds in a page (lines 120-123)
PageSections(page) == findSections(TrimmedLines(page))

parsePage(page, year) == PageTournaments(PageSections(page), year)

\* the pages parseWSOP2025Schedule hands to parsePage, in order
RECURSIVE ParsedPages(_)
ParsedPages(pages) ==
    IF Len(pages) = 0 THEN <<>>
    ELSE (IF PageNotBlank(Head(pages)) /\ ~IsInfoPage(Head(pages))
          THEN <<Head(pages)>> ELSE <<>>) \o ParsedPages(Tail(pages))

\* the sections of each page parsed, in page order
ScheduleSections(txt) ==
    LET pages == ParsedPages(SplitPages(txt, 1, Len(txt)))
    IN  [k \in 1..Len(pages) |-> PageSections(pages[k])]

\* the loop over the pages given up at the first page without event numbers
RECURSIVE TournamentsOf_StopAtEmptyPage(_, _)
TournamentsOf_StopAtEmptyPage(secs, year) ==
    IF Len(secs) = 0 \/ Len(Head(secs).eventNumbers) = 0 THEN <<>>
    ELSE PageTournaments(Head(secs), year) \o TournamentsOf_StopAtEmptyPage(Tail(secs), year)

\* tournaments.push(...pageTournaments) for each page, from its sections
RECURSIVE TournamentsOf(_, _)
TournamentsOf(secs, year) ==
    IF Len(secs) = 0 THEN <<>>
    ELSE PageTournaments(Head(secs), year) \o TournamentsOf(Tail(secs), year)

parseWSOP2025Schedule(txt, year) == TournamentsOf(ScheduleSections(txt), year)

---------------------------------------------------------------------------
(* Specification of the columnar pipeline: one call of                     *)
(* parseWSOP2025Schedule(text, 2026) on a text of one or two pages laid    *)
(* out as the schedule PDF is: one block of lines per column, each under   *)
(* its header lines                                                        *)

MaxRows == 3

Take(s, n) == SubSeq(s, 1, IF n < Len(s) THEN n ELSE Len(s))

\* the sequences over S of length at most n
SeqsUpTo(S, n) == UNION {[1..k -> S] : k \in 0..n}

\* the entries a buy-in column line can be: a dash, an amount under and an
\* amount over the threshold
BuyinLines == {<<"-">>, <<"$","5","0">>, <<"$","5","0","0">>}

\* the k-th line of each of the other columns
DateLine(k) == (IF k % 2 = 1 THEN <<"M","a","y"," ">> ELSE <<"J","u","n","e"," ">>) \o IntToStr(26 + k)

DayLine(k) == IF k % 2 = 1 THEN <<"W","e","d","n","e","s","d","a","y">> ELSE <<"T","h","u","r","s","d","a","y">>

TimeLine(k) == IF k % 3 = 1 THEN <<"1","2"," ","P","M">> ELSE IF k % 3 = 2 THEN <<"T","B","D">> ELSE <<"1","0",":","3","0","a","m">>

ChipsLine(k) == IF k % 2 = 1 THEN <<"4","0",",","0","0","0">> ELSE <<"-">>

DurationLine(k) == IF k % 2 = 1 THEN <<"6","0">> ELSE <<"3","0","/","6","0">>

ReentryLine(k) == IF k % 2 = 1 THEN <<"1">> ELSE <<"U","n","l","i","m","i","t","e","d">>

LateRegLine(k) == IF k % 2 = 1 THEN <<"6"," ","l","e","v","e","l","s">> ELSE <<"F","i","r","s","t"," ","b","r","e","a","k">>

EventNumberLine(k) == IntToStr(57 + k) \o (IF k % 3 = 0 THEN <<"A">> ELSE <<>>)

Column(Line(_), n) == [k \in 1..n |-> Line(k)]

\* the blocks of lines the event-name column can hold
NameColumns ==
    {<<>>,
     <<<<"N","o","-","L","i","m","i","t"," ","H","o","l","d","'","e","m">>>>,
     <<<<"M","y","s","t","e","r","y"," ","B","o","u","n","t","y">>, <<"N","o","-","L","i","m","i","t"," ","H","o","l","d","'","e","m">>, <<"S","A","L","U","T","E"," ","t","o"," ","W","a","r","r","i","o","r","s">>>>,
     <<<<"P","o","t","-","L","i","m","i","t"," ","O","m","a","h","a">>, <<"C","h","a","m","p","i","o","n","s","h","i","p">>, <<"S","e","v","e","n"," ","C","a","r","d"," ","S","t","u","d"," ","(","8","-","H","a","n","d","e","d",")">>>>,
     <<<<"M","A","I","N"," ","E","V","E","N","T"," ","-"," ","D","a","y"," ","2">>, <<"L","i","m","i","t"," ","H","o","l","d","'","e","m">>>>,
     <<<<"R","e","g","i","s","t","r","a","t","i","o","n"," ","O","p","e","n","s">>, <<"M","i","x","e","d",":"," ","R","a","z","z",";"," ","B","a","d","u","g","i">>, <<"N","o","-","L","i","m","i","t"," ","2","-","7">>>>,
     <<<<"B","i","g"," ","O">>, <<"M","A","I","N"," ","E","V","E","N","T">>, <<"N","o","-","L","i","m","i","t"," ","H","o","l","d","'","e","m">>, <<"R","a","z","z"," ","(","6","-","H","a","n","d","e","d",")">>>>}

\* a page: rows table rows (their buy-in lines), numbers event numbers, the
\* name block names; with short, the other columns miss their last entry
PageOf(rows, numbers, names, short) ==
    LET nr == IF short /\ Len(rows) > 0 THEN Len(rows) - 1 ELSE Len(rows)
        ne == IF short /\ numbers > 0 THEN numbers - 1 ELSE numbers
    IN  <<<<"W","O","H","L","D"," ","S","E","R","I","E","S">>, <<"D","A","T","E"," ","E","V","E","N","T"," ","N","A","M","E">>>> \o Column(DateLine, nr)
        \o <<<<"D","A","Y">>>> \o Column(DayLine, nr)
        \o <<<<"T","I","M","E">>>> \o Column(TimeLine, nr)
        \o <<<<"B","U","Y","-","I","N">>>> \o rows
        \o <<<<"S","T","A","R","T","I","N","G">>, <<"C","H","I","P","S">>>> \o Column(ChipsLine, ne)
        \o <<<<"L","V","L">>, <<"D","U","R","A","T","I","O","N">>, <<"(","M","I","N","U","T","E","S",")">>>> \o Column(DurationLine, ne)
        \o <<<<"R","E","-","E","N","T","R","Y">>>> \o Column(ReentryLine, ne)
        \o <<<<"L","A","T","E">>, <<"R","E","G",".">>>> \o Column(LateRegLine, ne)
        \o names
        \o <<<<"E","V","#">>>> \o Column(EventNumberLine, numbers)
        \o <<<<"1","/","1","0">>>>

PageInputs ==
    {PageOf(rows, numbers, names, short) :
        rows \in SeqsUpTo(BuyinLines, MaxRows), numbers \in 0..MaxRows,
        names \in NameColumns, short \in BOOLEAN}

\* a page whose buy-in column holds a "$" without digits, an amount that is
\* no number, the threshold itself and the amount just below it
EdgeBuyinPage ==
    PageOf(<<<<"$",",">>, <<"$","T","B","D">>, <<"$","1","0","0">>, <<"$","9","9">>>>, 3, <<>>, FALSE)

PageMarker == <<"-","-"," ","1"," ","o","f"," ","2"," ","-","-">>

\* pages of a two-page text: an info page, a blank page, a page without
\* event numbers, pages with events, a page that starts with column entries
\* under no header
SecondPages ==
    {<<<<"C","o","n","s","u","l","t"," ","s","t","r","u","c","t","u","r","e"," ","s","h","e","e","t","s"," ","f","o","r"," ","d","e","t","a","i","l","s">>, <<"E","V","#">>, <<"1","2">>>>,
     <<<<" "," ">>>>,
     <<<<"B","U","Y","-","I","N">>, <<"$","5","0","0">>>>,
     PageOf(<<<<"$","5","0","0">>>>, 1, <<<<"N","o","-","L","i","m","i","t"," ","H","o","l","d","'","e","m">>>>, FALSE),
     PageOf(<<<<"-">>, <<"$","1",",","5","0","0">>>>, 2, <<>>, FALSE),
     <<<<"$","7","0","0">>, <<"E","V","#">>, <<"1","2">>>>,
     EdgeBuyinPage}

TextInputs ==
    PageInputs \cup
    {p \o <<PageMarker>> \o q : p \in SecondPages, q \in SecondPages}

Year2026 == 2026

InitColumnar ==
    /\ pc = "wsop_call"
    /\ text \in TextInputs
    /\ pageSections = <<>>
    /\ tournaments = <<>>
    /\ IdleRake /\ IdleClassify /\ IdleGeneric /\ IdleRepeat /\ IdleDetect /\ IdleServer

\* parseWSOP2025Schedule(text, 2026); pageSections records what findSections
\* returned for each page the call parsed
CallParseWSOP2025Schedule ==
    /\ pc = "wsop_call"
    /\ pageSections' = ScheduleSections(text)
    /\ tournaments' = TournamentsOf(pageSections', Year2026)
    /\ pc' = "wsop_done"
    /\ UNCHANGED <<text, rakeVars, classifyVars, genericVars, repeatVars, format, serverVars>>

NextColumnar == CallParseWSOP2025Schedule

SpecColumnar == InitColumnar /\ [][NextColumnar]_vars

---------------------------------------------------------------------------
(* Claims about the columnar pipeline                                      *)

ColumnarDone == pc = "wsop_done"

\* the number of event-number lines findSections accepted, over the pages
RECURSIVE AcceptedEventNumbers(_)
AcceptedEventNumbers(secs) ==
    IF Len(secs) = 0 THEN 0
    ELSE Len(Head(secs).eventNumbers) + AcceptedEventNumbers(Tail(secs))

\* the records of a result carry, in order, event numbers found at strictly
\* increasing positions of a column: each record comes from its own line
RECURSIVE FromColumn(_, _, _)
FromColumn(recs, col, from) ==
    IF Len(recs) = 0 THEN TRUE
    ELSE \E j \in from..Len(col) :
            /\ col[j] = Head(recs).eventNumber
            /\ FromColumn(Tail(recs), col, j + 1)

\* the event-number columns of the parsed pages, one after the other
RECURSIVE AllEventNumbers(_)
AllEventNumbers(secs) ==
    IF Len(secs) = 0 THEN <<>>
    ELSE Head(secs).eventNumbers \o AllEventNumbers(Tail(secs))

\* C5: the columnar parser returns at most as many records as event-number
\* lines were accepted over the parsed pages, and every record carries a
\* non-null eventNumber: an accepted line (/^\d{1,3}[A-E]?$/) of that column,
\* each record taking a line of its own
C5_RecordsFromEventNumbers ==
    ColumnarDone =>
        /\ Len(tournaments) <= AcceptedEventNumbers(pageSections)
        /\ \A t \in 1..Len(tournaments) :
              /\ tournaments[t].eventNumber # Null
              /\ ReEventNumberLine(tournaments[t].eventNumber)
        /\ FromColumn(tournaments, AllEventNumbers(pageSections), 1)

\* two pages parsed, three event numbers accepted, two records: the second
\* page has a dash row and so one event number without a record
C5_Witness ==
    /\ ColumnarDone
    /\ Len(pageSections) = 2
    /\ AcceptedEventNumbers(pageSections) = 3
    /\ Len(tournaments) = 2

\* the position in the buy-in column of its i-th non-null entry, 0 when the
\* column has fewer
NthNonNull(column, i) ==
    Bind({p \in 1..Len(column) :
             /\ column[p] # Null
             /\ Cardinality({q \in 1..p : column[q] # Null}) = i},
         LAMBDA found : IF found = {} THEN 0 ELSE CHOOSE p \in found : TRUE)

\* the entry of a stream at a position, <<>> when the stream has none there
EntryAt(stream, k) == IF k \in 1..Len(stream) THEN stream[k] ELSE <<>>

\* the events of a page that produce a record: those with an i-th non-null
\* buy-in of at least 100 whose name is no MAIN EVENT continuation day
RecordedEvents(sec) ==
    {i \in 1..Len(sec.eventNumbers) :
        /\ ~ReMainEventDay(EntryAt(sec.eventNames, i))
        /\ NthNonNull(sec.allBuyins, i) # 0
        /\ sec.allBuyins[NthNonNull(sec.allBuyins, i)][1] >= MinBuyin}

\* the n-th member of a set of positions, in increasing order
NthOf(S, n) == CHOOSE i \in S : Cardinality({j \in S : j <= i}) = n

\* the record rec is the one of event i of the page: buy-in, date and time
\* through the table row of the i-th non-null buy-in, the others by i
RecordOfEvent(rec, sec, i) ==
    Bind(NthNonNull(sec.allBuyins, i), LAMBDA row :
        /\ rec.eventNumber = sec.eventNumbers[i]
        /\ rec.buyin = sec.allBuyins[row][1]
        /\ rec.date = IF EntryAt(sec.dates, row) = <<>> THEN <<>>
                      ELSE sec.dates[row] \o <<","," ","2","0","2","6">>
        /\ rec.time = IF EntryAt(sec.times, row) = <<>> THEN <<"T","B","D">>
                      ELSE sec.times[row]
        /\ rec.eventName = EntryAt(sec.eventNames, i)
        /\ rec.startingChips =
               IF EntryAt(sec.chips, i) \in {Null, Some(0), Some(NaN)} THEN Null
               ELSE sec.chips[i]
        /\ rec.levelDuration = EntryAt(sec.durations, i)
        /\ rec.reentry = EntryAt(sec.reentries, i)
        /\ rec.lateReg = EntryAt(sec.lateRegs, i))

\* the records are those of the recorded events of the pages, page by page
\* and in the order of the event-number column
RECURSIVE RecordsOfPages(_, _)
RecordsOfPages(recs, secs) ==
    IF Len(secs) = 0 THEN Len(recs) = 0
    ELSE Bind(RecordedEvents(Head(secs)), LAMBDA events :
            /\ Cardinality(events) <= Len(recs)
            /\ \A n \in 1..Cardinality(events) :
                  RecordOfEvent(recs[n], Head(secs), NthOf(events, n))
            /\ RecordsOfPages(SubSeq(recs, Cardinality(events) + 1, Len(recs)),
                              Tail(secs)))

\* C26: for the i-th entry of the event-number column of a page the record's
\* buyin is the i-th non-null entry of the buy-in column, its date and time
\* are the entries of the dates and times streams at the position of that
\* entry in the full buy-in column (the date followed by the year, the time
\* TBD when missing), and its name, chips, duration, re-entry and late-reg
\* are the i-th entries of their own streams; an event with no i-th non-null
\* buy-in produces no record
C26_RecordIndexing ==
    ColumnarDone => RecordsOfPages(tournaments, pageSections)

\* a page whose first table row has no buy-in: the first event takes the
\* buy-in, the date and the time of the second row
C26_Witness ==
    /\ ColumnarDone
    /\ Len(pageSections) = 1
    /\ Len(pageSections[1].allBuyins) = 3
    /\ pageSections[1].allBuyins[1] = Null
    /\ Len(tournaments) = 2
    /\ tournaments[1].date = <<"J","u","n","e"," ","2","8",","," ","2","0","2","6">>
    /\ tournaments[1].time = <<"T","B","D">>
    /\ tournaments[2].date = <<"M","a","y"," ","2","9",","," ","2","0","2","6">>

\* the events of a page with a resolved buy-in: an i-th entry of the buy-in
\* column that is no dash and no "$" without amount
ResolvedEvents(sec) ==
    {i \in 1..Len(sec.eventNumbers) : NthNonNull(sec.allBuyins, i) # 0}

\* the events of the pages whose resolved buy-in is a number from 100 on
RECURSIVE EventsOverThreshold(_)
EventsOverThreshold(secs) ==
    IF Len(secs) = 0 THEN 0
    ELSE Cardinality({i \in ResolvedEvents(Head(secs)) :
             Head(secs).allBuyins[NthNonNull(Head(secs).allBuyins, i)][1] >= 100})
         + EventsOverThreshold(Tail(secs))

\* C34: every record of the columnar pipeline has an integer buyin of at
\* least 100, and there are no more records than events whose resolved
\* buy-in is at least 100: an event whose buy-in is null, missing or below
\* 100 produces no record
C34_BuyinThreshold ==
    ColumnarDone =>
        /\ \A k \in 1..Len(tournaments) :
              tournaments[k].buyin \in Nat /\ tournaments[k].buyin >= 100
        /\ Len(tournaments) <= EventsOverThreshold(pageSections)

\* a page with a "$" that carries no number, an amount that resolves to
\* null, the buy-in 100 and a buy-in of 99: one record, of buy-in 100
C34_Witness ==
    /\ ColumnarDone
    /\ Len(pageSections) = 1
    /\ pageSections[1].allBuyins = <<Some(NaN), Null, Some(100), Some(99)>>
    /\ Len(pageSections[1].eventNumbers) = 3
    /\ Len(tournaments) = 1
    /\ tournaments[1].buyin = 100

---------------------------------------------------------------------------
(* Row parser: parseGenericSchedule, groupIntoRows, parseRow and their     *)
(* helpers.  A text is a sequence of lines; a row is the sequence of the   *)
(* lines grouped into it.  Positions in a string are 1-based.              *)

\* the alternatives (MON|TUES|WED|THURS|FRI|SAT|SUN), in lower case
DayAbbrs == <<<<"m","o","n">>, <<"t","u","e","s">>, <<"w","e","d">>, <<"t","h","u","r","s">>, <<"f","r","i">>, <<"s","a","t">>, <<"s","u","n">>>>

\* the alternatives (JAN|FEB|...|DEC), in lower case
MonthAbbrs == <<<<"j","a","n">>, <<"f","e","b">>, <<"m","a","r">>, <<"a","p","r">>, <<"m","a","y">>, <<"j","u","n">>, <<"j","u","l">>, <<"a","u","g">>, <<"s","e","p">>, <<"o","c","t">>, <<"n","o","v">>, <<"d","e","c">>>>

\* MONTH_FULL, in the order of MonthAbbrs
MONTH_FULL == <<<<"J","a","n","u","a","r","y">>, <<"F","e","b","r","u","a","r","y">>, <<"M","a","r","c","h">>, <<"A","p","r","i","l">>, <<"M","a","y">>, <<"J","u","n","e">>, <<"J","u","l","y">>, <<"A","u","g","u","s","t">>, <<"S","e","p","t","e","m","b","e","r">>, <<"O","c","t","o","b","e","r">>, <<"N","o","v","e","m","b","e","r">>, <<"D","e","c","e","m","b","e","r">>>>

\* the leftmost position of a set of positions, 0 when it is empty
FirstOf(S) == IF S = {} THEN 0 ELSE CHOOSE i \in S : \A j \in S : i <= j

\* the least element of a non-empty set of positions: the leftmost match
Leftmost(S) == CHOOSE i \in S : \A j \in S : i <= j

\* the index of the first alternative of alts that matches s at position i,
\* ignoring case; 0 when none does
AltAt(s, i, alts) == FirstOf({k \in 1..Len(alts) : MatchAtCI(s, i, alts[k])})

\* the position after that alternative; 0 when none matches
AltEnd(s, i, alts) ==
    Bind(AltAt(s, i, alts), LAMBDA k : IF k = 0 THEN 0 ELSE i + Len(alts[k]))

\* where the month of /(DAY)\s+(MONTH)\s+(\d{1,2})/i starts, for a match
\* that starts at position i; 0 when the day and the spaces do not match
DateMonthStart(s, i) ==
    Bind(AltEnd(s, i, DayAbbrs), LAMBDA a :
        IF a = 0 THEN 0
        ELSE Bind(RunEnd(s, a, SpaceSet), LAMBDA b : IF b = a THEN 0 ELSE b))

\* where its day number starts; 0 when there is no match up to there
DateDayStart(s, i) ==
    Bind(DateMonthStart(s, i), LAMBDA b :
        IF b = 0 THEN 0
        ELSE Bind(AltEnd(s, b, MonthAbbrs), LAMBDA c :
            IF c = 0 THEN 0
            ELSE Bind(RunEnd(s, c, SpaceSet), LAMBDA d :
                IF d = c \/ d > Len(s) \/ ~IsDigit(s[d]) THEN 0 ELSE d)))

\* the position after the match of the date pattern at i; 0 when none
DateEnd(s, i) ==
    Bind(DateDayStart(s, i), LAMBDA d :
        IF d = 0 THEN 0
        ELSE IF d + 1 <= Len(s) /\ IsDigit(s[d + 1]) THEN d + 2 ELSE d + 1)

\* the position after /^\d{1,3}[A-G]?/i in s; 0 when it does not match or
\* a fourth digit follows
EvNumEnd(s) ==
    Bind(RunEnd(s, 1, DigitSet), LAMBDA e :
        IF e = 1 \/ e > 4 THEN 0
        ELSE IF e <= Len(s) /\ ToUpperChar(s[e]) \in {"A", "B", "C", "D", "E", "F", "G"}
             THEN e + 1 ELSE e)

\* the date pattern followed by \b, matching at position i
RowStartFrom(s, i) == Bind(DateEnd(s, i), LAMBDA e : e > 0 /\ WordBoundary(s, e))

\* ROW_START_RE.test(line) (line 18)
ROW_START_RE(line) ==
    \/ RowStartFrom(line, 1)
    \/ Bind(EvNumEnd(line), LAMBDA n :
          /\ n > 0
          /\ Bind(RunEnd(line, n, SpaceSet), LAMBDA q : q > n /\ RowStartFrom(line, q)))

\* s.replace(/\t+/g, ' '): every run of tabs becomes one space
TabsToSpace(s) ==
    Bind(SelectSeq([k \in 1..Len(s) |-> k],
                   LAMBDA k : s[k] # "\t" \/ k = 1 \/ s[k - 1] # "\t"),
         LAMBDA keep : [j \in 1..Len(keep) |-> IF s[keep[j]] = "\t" THEN " " ELSE s[keep[j]]])

\* s.replace(/\s+/g, ' '): every run of white space becomes one space
CollapseSpaces(s) ==
    Bind(SelectSeq([k \in 1..Len(s) |-> k],
                   LAMBDA k : ~IsSpace(s[k]) \/ k = 1 \/ ~IsSpace(s[k - 1])),
         LAMBDA keep : [j \in 1..Len(keep) |-> IF IsSpace(s[keep[j]]) THEN " " ELSE s[keep[j]]])

\* rowLines.join(' ').replace(/\t+/g, ' ').replace(/\s+/g, ' ').trim()
Joined(rowLines) == Trim(CollapseSpaces(TabsToSpace(JoinSpace(rowLines))))

\* the event number of the row: group 1 of
\* /^(\d{1,3}[A-G]?)\s+(MON|TUES|WED|THURS|FRI|SAT|SUN)/i on the first line
EventNumberOf(firstLine) ==
    Bind(EvNumEnd(firstLine), LAMBDA n :
        IF n = 0 THEN <<>>
        ELSE Bind(RunEnd(firstLine, n, SpaceSet), LAMBDA q :
            IF q > n /\ AltEnd(firstLine, q, DayAbbrs) > 0
            THEN SubSeq(firstLine, 1, n - 1) ELSE <<>>))

\* /\b(\d{1,2}(?::\d{2})?\s*(?:AM|PM))\b/i at position i: the position
\* after the match, 0 when there is none
TimeEnd(s, i) ==
    IF i > Len(s) \/ ~IsDigit(s[i]) \/ ~WordBoundary(s, i) THEN 0
    ELSE Bind(IF i + 1 <= Len(s) /\ IsDigit(s[i + 1]) THEN i + 2 ELSE i + 1, LAMBDA a :
         Bind(IF /\ MatchAt(s, a, <<":">>) /\ a + 2 <= Len(s)
                 /\ IsDigit(s[a + 1]) /\ IsDigit(s[a + 2])
              THEN a + 3 ELSE a, LAMBDA b :
         Bind(AltEnd(s, RunEnd(s, b, SpaceSet), <<<<"a","m">>, <<"p","m">>>>), LAMBDA d :
             IF d > 0 /\ WordBoundary(s, d) THEN d ELSE 0)))

\* where the time token starts in s; 0 when timeMatch is null
TimeStart(s) == FirstOf({i \in 1..Len(s) : TimeEnd(s, i) > 0})

\* the characters of a dollar amount after the $
AmountSet == DigitSet \cup {","}

\* the matches of /\$[\d,]+/g in s, in order: where each starts, the
\* position after it, its value parseInt(raw.replace(/[$,]/g, ''))
AllDollars(s) ==
    Bind(SelectSeq([k \in 1..Len(s) |-> k],
                   LAMBDA k : s[k] = "$" /\ k + 1 <= Len(s) /\ s[k + 1] \in AmountSet),
         LAMBDA starts :
             [j \in 1..Len(starts) |->
                 Bind(RunEnd(s, starts[j] + 1, AmountSet), LAMBDA e :
                     [index |-> starts[j], end |-> e,
                      value |-> ParseIntCommas(SubSeq(s, starts[j] + 1, e - 1))])])

\* /^\s*lit/i on joined.slice(e, e + width): lit (lower case) after the
\* spaces that follow position e - 1, all within width characters
AfterHas(s, e, width, lit) ==
    Bind(RunEnd(s, e, SpaceSet), LAMBDA p :
        MatchAtCI(s, p, lit) /\ p + Len(lit) <= e + width)

\* /,\s*$/ on the five characters before position i
CommaBefore(s, i) ==
    \E c \in 1..(i - 1) :
        /\ c >= i - 5
        /\ s[c] = ","
        /\ \A k \in (c + 1)..(i - 1) : IsSpace(s[k])

\* the amounts pushed to nameDollars (line 270)
IsNameDollar(s, d) ==
    AfterHas(s, d.end, 15, <<"g","u","a","r","a","n","t","e","e","d">>) \/ CommaBefore(s, d.index)

\* the filter of lines 279-282
NotNameEmbedded(s, d) ==
    /\ ~AfterHas(s, d.end, 20, <<"p","e","r"," ">>)
    /\ ~AfterHas(s, d.end, 20, <<"r","e","b","u","y">>)
    /\ ~AfterHas(s, d.end, 20, <<"g","u","a","r","a","n","t","e","e">>)

\* filteredColumnDollars: timeEnd is the position after the time token, 1
\* when there is none
FilteredColumnDollars(s, timeEnd) ==
    SelectSeq(AllDollars(s),
              LAMBDA d : ~IsNameDollar(s, d) /\ d.index > timeEnd /\ NotNameEmbedded(s, d))

\* filteredColumnDollars[k] ? filteredColumnDollars[k].value : null (k from 1)
ColumnValue(dollars, k) == IF k <= Len(dollars) THEN Some(dollars[k].value) ELSE Null

\* /\b(\d+)K\b/i at position i: the position of the K, 0 when no match
ChipsKAt(s, i) ==
    IF i > Len(s) \/ ~IsDigit(s[i]) \/ ~WordBoundary(s, i) THEN 0
    ELSE Bind(RunEnd(s, i, DigitSet), LAMBDA e :
         IF e <= Len(s) /\ ToUpperChar(s[e]) = "K" /\ WordBoundary(s, e + 1)
         THEN e ELSE 0)

\* chipsMatch ? parseInt(chipsMatch[1]) * 1000 : null
StartingChipsOf(s) ==
    Bind(FirstOf({i \in 1..Len(s) : ChipsKAt(s, i) > 0}), LAMBDA i :
        IF i = 0 THEN Null
        ELSE Some(ParseDigits(SubSeq(s, i, ChipsKAt(s, i) - 1)) * 1000))

\* \d{1,2} taking exactly n characters at position i
DigitsAt(s, i, n) ==
    /\ i >= 1 /\ i + n - 1 <= Len(s)
    /\ \A k \in i..(i + n - 1) : IsDigit(s[k])

\* /\d{1,2}(?:\s*,\s*\d{1,2})?\s*$/ matching from position i to the end
LevelsFrom(s, i) ==
    \E n \in 1..2 :
        /\ DigitsAt(s, i, n)
        /\ Bind(RunEnd(s, i + n, SpaceSet), LAMBDA a :
              \/ a = Len(s) + 1
              \/ /\ a <= Len(s) /\ s[a] = ","
                 /\ Bind(RunEnd(s, a + 1, SpaceSet), LAMBDA b :
                       \E m \in 1..2 :
                          /\ DigitsAt(s, b, m)
                          /\ RunEnd(s, b + m, SpaceSet) = Len(s) + 1))

\* levelsMatch[1].replace(/\s/g, ''), '' when levelsMatch is null
LevelDurationOf(s) ==
    Bind(FirstOf({i \in 1..Len(s) : WordBoundary(s, i) /\ LevelsFrom(s, i)}), LAMBDA i :
        IF i = 0 THEN <<>> ELSE RemoveChars(SubSeq(s, i, Len(s)), SpaceSet))

\* /\d{1,2}(?:,\d{1,2})?\s*$/ matching from position i to the end
LevelsTail(s, i) ==
    \E n \in 1..2 :
        /\ DigitsAt(s, i, n)
        /\ \/ RunEnd(s, i + n, SpaceSet) = Len(s) + 1
           \/ /\ i + n <= Len(s) /\ s[i + n] = ","
              /\ \E m \in 1..2 :
                    /\ DigitsAt(s, i + n + 1, m)
                    /\ RunEnd(s, i + n + 1 + m, SpaceSet) = Len(s) + 1

\* /\s+\d+K/ (upper-case K only) matching at position i: the position after
\* the K, 0 when there is no match
SpacesChipsEnd(s, i) ==
    Bind(RunEnd(s, i, SpaceSet), LAMBDA a :
        IF a = i THEN 0
        ELSE Bind(RunEnd(s, a, DigitSet), LAMBDA e :
            IF e > a /\ e <= Len(s) /\ s[e] = "K" THEN e + 1 ELSE 0))

\* raw.replace(/\s+\d+K\s+\d{1,2}(?:,\d{1,2})?\s*$/, '').trim()
StripChipsAndLevels(raw) ==
    Bind(FirstOf({i \in 1..Len(raw) :
                    Bind(SpacesChipsEnd(raw, i), LAMBDA k :
                        /\ k > 0
                        /\ Bind(RunEnd(raw, k, SpaceSet), LAMBDA t :
                              t > k /\ LevelsTail(raw, t)))}),
         LAMBDA i : IF i = 0 THEN raw ELSE Trim(SubSeq(raw, 1, i - 1)))

\* raw.replace(/\s+\d+K\s*$/, '').trim()
StripChips(raw) ==
    Bind(FirstOf({i \in 1..Len(raw) :
                    Bind(SpacesChipsEnd(raw, i), LAMBDA k :
                        k > 0 /\ RunEnd(raw, k, SpaceSet) = Len(raw) + 1)}),
         LAMBDA i : IF i = 0 THEN raw ELSE Trim(SubSeq(raw, 1, i - 1)))

\* the event name of lines 302-325: between the time token and the first
\* column amount; after the time token, less trailing chips and levels,
\* when there is no column amount; '' when there is no time token
ExtractEventName(s, timeStart, dollars) ==
    Trim(CollapseSpaces(
        IF timeStart > 0 /\ Len(dollars) > 0
        THEN Trim(SubSeq(s, TimeEnd(s, timeStart), dollars[1].index - 1))
        ELSE IF timeStart > 0
        THEN StripChips(StripChipsAndLevels(Trim(SubSeq(s, TimeEnd(s, timeStart), Len(s)))))
        ELSE <<>>))

\* /\bword\b/i.test(s), word in lower case
HasWord(s, word) ==
    \E i \in 1..Len(s) :
        MatchAtCI(s, i, word) /\ WordBoundary(s, i) /\ WordBoundary(s, i + Len(word))

\* /\bword/i.test(s)
HasWordStart(s, word) ==
    \E i \in 1..Len(s) : MatchAtCI(s, i, word) /\ WordBoundary(s, i)

\* /lit/i.test(s)
IncludesCI(s, lit) == \E i \in 1..Len(s) : MatchAtCI(s, i, lit)

\* /\bINVITE\s*ONLY\b/i.test(s)
HasInviteOnly(s) ==
    \E i \in 1..Len(s) :
        /\ MatchAtCI(s, i, <<"i","n","v","i","t","e">>) /\ WordBoundary(s, i)
        /\ Bind(RunEnd(s, i + 6, SpaceSet), LAMBDA p :
              MatchAtCI(s, p, <<"o","n","l","y">>) /\ WordBoundary(s, p + 4))

IsRestartName(name) == HasWord(name, <<"r","e","s","t","a","r","t">>) \/ HasWord(name, <<"f","i","n","a","l"," ","t","a","b","l","e">>)

IsSatelliteName(name) == HasWord(name, <<"s","a","t","e","l","l","i","t","e">>) \/ HasWordStart(name, <<"s","u","p","e","r"," ","s","a","t">>)

IsFreerollRow(name, s) == HasWord(name, <<"f","r","e","e","r","o","l","l">>) \/ HasInviteOnly(s)

\* /\$([\d,]+)\s*GUARANTEED/i at position i: the position after the amount,
\* 0 when there is no match
GuaranteeAmountEnd(s, i) ==
    IF i + 1 > Len(s) \/ s[i] # "$" \/ s[i + 1] \notin AmountSet THEN 0
    ELSE Bind(RunEnd(s, i + 1, AmountSet), LAMBDA e :
         IF MatchAtCI(s, RunEnd(s, e, SpaceSet), <<"g","u","a","r","a","n","t","e","e","d">>) THEN e ELSE 0)

\* /\((\d)-DAY EVENT\)/i at position i
MultiDayAt(s, i) ==
    /\ MatchAt(s, i, <<"(">>)
    /\ i + 1 <= Len(s) /\ IsDigit(s[i + 1])
    /\ MatchAtCI(s, i + 2, <<"-","d","a","y"," ","e","v","e","n","t",")">>)

\* Array.prototype.join(', ')
RECURSIVE JoinComma(_)
JoinComma(ls) ==
    IF Len(ls) = 0 THEN <<>>
    ELSE IF Len(ls) = 1 THEN ls[1]
    ELSE ls[1] \o <<",", " ">> \o JoinComma(Tail(ls))

\* the note for the guarantee that starts at position i of s (none for 0)
GuaranteeNote(s, i) ==
    IF i = 0 THEN <<>>
    ELSE <<SubSeq(s, i, GuaranteeAmountEnd(s, i) - 1) \o <<" ","G","u","a","r","a","n","t","e","e","d">>>>

\* the note for the (n-DAY EVENT) that starts at position i of name (none
\* for 0)
MultiDayNote(name, i) ==
    IF i = 0 THEN <<>> ELSE <<<<name[i + 1]>> \o <<"-","D","a","y"," ","E","v","e","n","t">>>>

\* the notes of lines 336-345 and 418: joined by ', ', null when there are none
NotesOf(name, s) ==
    JoinComma(
        GuaranteeNote(s, FirstOf({i \in 1..Len(s) : GuaranteeAmountEnd(s, i) > 0}))
        \o (IF HasWord(name, <<"b","o","u","n","t","y">>) THEN <<<<"B","o","u","n","t","y">>>> ELSE <<>>)
        \o (IF HasWord(name, <<"f","r","e","e","z","e","o","u","t">>) THEN <<<<"F","r","e","e","z","e","o","u","t">>>> ELSE <<>>)
        \o (IF HasWord(name, <<"t","u","r","b","o">>) THEN <<<<"T","u","r","b","o">>>> ELSE <<>>)
        \o MultiDayNote(name, FirstOf({i \in 1..Len(name) : MultiDayAt(name, i)}))
        \o (IF HasWord(name, <<"s","i","n","g","l","e"," ","r","e","-","e","n","t","r","y">>) THEN <<<<"S","i","n","g","l","e"," ","R","e","-","E","n","t","r","y">>>> ELSE <<>>))

\* /EVENT\s+(\d+)/i at position i: where the number starts, 0 when no match
EventRefAt(s, i) ==
    IF ~MatchAtCI(s, i, <<"e","v","e","n","t">>) THEN 0
    ELSE Bind(RunEnd(s, i + 5, SpaceSet), LAMBDA a :
         IF a > i + 5 /\ a <= Len(s) /\ IsDigit(s[a]) THEN a ELSE 0)

\* /EVENT\s+(\d+)\s+.*SATELLITE/i at position i
SatelliteRefAt(s, i) ==
    Bind(EventRefAt(s, i), LAMBDA a :
        /\ a > 0
        /\ Bind(RunEnd(s, a, DigitSet), LAMBDA e :
           Bind(RunEnd(s, e, SpaceSet), LAMBDA b :
               b > e /\ \E j \in b..Len(s) : MatchAtCI(s, j, <<"s","a","t","e","l","l","i","t","e">>))))

MainEvent == <<"M","A","I","N"," ","E","V","E","N","T">>

\* the number of the event reference that starts at position i
EventRefNumber(s, i) ==
    Bind(EventRefAt(s, i), LAMBDA a : SubSeq(s, a, RunEnd(s, a, DigitSet) - 1))

\* the event a name refers to: the number at position i, MAIN EVENT when
\* there is no such position and the name holds these words, else null
ReferredEvent(name, i) ==
    IF i > 0 THEN EventRefNumber(name, i)
    ELSE IF IncludesCI(name, <<"m","a","i","n"," ","e","v","e","n","t">>) THEN MainEvent
    ELSE Null

\* targetEvent (lines 348-359)
TargetEventOf(name, isSatellite) ==
    IF ~isSatellite THEN Null
    ELSE ReferredEvent(name, FirstOf({i \in 1..Len(name) : SatelliteRefAt(name, i)}))

\* parentEvent with the main-event test before the EVENT n test
ParentEventOf_MainEventFirst(name, isRestart) ==
    IF ~isRestart THEN Null
    ELSE IF IncludesCI(name, <<"m","a","i","n"," ","e","v","e","n","t">>) THEN MainEvent
    ELSE ReferredEvent(name, FirstOf({i \in 1..Len(name) : EventRefAt(name, i) > 0}))

\* parentEvent (lines 362-374)
ParentEventOf(name, isRestart) ==
    IF ~isRestart THEN Null
    ELSE ReferredEvent(name, FirstOf({i \in 1..Len(name) : EventRefAt(name, i) > 0}))

\* Math.round(num / den) for den > 0: the nearest integer, halves upwards
RoundRatio(num, den) == (2 * num + den) \div (2 * den)

\* Math.round((rakeDollars / totalEntry) * 1000) / 10, in hundredths of a
\* percent
RakePercentOf(rakeDollars, totalEntry) == 10 * RoundRatio(1000 * rakeDollars, totalEntry)

\* rake is computed from two amounts (line 393)
RakeComputed(totalEntry, prizePool) ==
    totalEntry > 0 /\ prizePool # Null /\ prizePool[1] > 0

\* /\$[\d,]+\s*GUARANTEED\s*/i at position i: the position after the match,
\* 0 when there is none
GuaranteeTextEnd(s, i) ==
    Bind(GuaranteeAmountEnd(s, i), LAMBDA e :
        IF e = 0 THEN 0 ELSE RunEnd(s, RunEnd(s, e, SpaceSet) + 10, SpaceSet))

\* name.replace(/\$[\d,]+\s*GUARANTEED\s*/gi, '')
RECURSIVE RemoveGuarantees(_)
RemoveGuarantees(s) ==
    Bind(FirstOf({i \in 1..Len(s) : GuaranteeTextEnd(s, i) > 0}), LAMBDA i :
        IF i = 0 THEN s
        ELSE SubSeq(s, 1, i - 1)
             \o RemoveGuarantees(SubSeq(s, GuaranteeTextEnd(s, i), Len(s))))

\* /\s*INVITE\s*ONLY\s*/i at position i: the position after the match, 0
\* when there is none
InviteOnlyEnd(s, i) ==
    Bind(RunEnd(s, i, SpaceSet), LAMBDA a :
        IF ~MatchAtCI(s, a, <<"i","n","v","i","t","e">>) THEN 0
        ELSE Bind(RunEnd(s, a + 6, SpaceSet), LAMBDA b :
            IF MatchAtCI(s, b, <<"o","n","l","y">>) THEN RunEnd(s, b + 4, SpaceSet) ELSE 0))

\* name.replace(/\s*INVITE\s*ONLY\s*/gi, '')
RECURSIVE RemoveInviteOnly(_)
RemoveInviteOnly(s) ==
    Bind(FirstOf({i \in 1..Len(s) : InviteOnlyEnd(s, i) > 0}), LAMBDA i :
        IF i = 0 THEN s
        ELSE SubSeq(s, 1, i - 1)
             \o RemoveInviteOnly(SubSeq(s, InviteOnlyEnd(s, i), Len(s))))

\* name.replace(/["]$/g, '')
RemoveTrailingQuote(s) ==
    IF Len(s) > 0 /\ s[Len(s)] = "\"" THEN SubSeq(s, 1, Len(s) - 1) ELSE s

\* cleanEventName (lines 428-439)
cleanEventName(name) ==
    Trim(CollapseSpaces(RemoveInviteOnly(RemoveTrailingQuote(RemoveGuarantees(name)))))

\* what parseRow extracts from a row before it builds the record
\* (lines 215-334): the joined text, whether dateMatch was found, the time
\* token, the column amounts, totalEntry, the event name before clean-up,
\* the three flags
RowFacts(rowLines) ==
    Bind(Joined(rowLines), LAMBDA s :
    Bind(TimeStart(s), LAMBDA timeStart :
    Bind(FilteredColumnDollars(s, IF timeStart = 0 THEN 1 ELSE TimeEnd(s, timeStart)), LAMBDA dollars :
    Bind(ExtractEventName(s, timeStart, dollars), LAMBDA name :
        [joined     |-> s,
         firstLine  |-> TabsToSpace(rowLines[1]),
         dateStart  |-> FirstOf({i \in 1..Len(s) : DateEnd(s, i) > 0}),
         timeStart  |-> timeStart,
         dollars    |-> dollars,
         totalEntry |-> IF Len(dollars) > 0 THEN dollars[1].value ELSE 0,
         eventName  |-> name,
         isRestart  |-> IsRestartName(name),
         isSatellite |-> IsSatelliteName(name),
         isFreeroll |-> IsFreerollRow(name, s)]))))

\* `${fullMonth} ${day}, ${year}` for the date match that starts at i
DateStr(s, i, year) ==
    LET b == DateMonthStart(s, i)
        d == DateDayStart(s, i)
    IN  MONTH_FULL[AltAt(s, b, MonthAbbrs)] \o <<" ">>
        \o IntToStr(ParseDigits(SubSeq(s, d, DateEnd(s, i) - 1)))
        \o <<",", " ">> \o IntToStr(year)

\* timeMatch ? timeMatch[1].replace(/\s+/g, '').toUpperCase() : 'TBD'
TimeStr(s, timeStart) ==
    IF timeStart = 0 THEN TBD
    ELSE ToUpper(RemoveChars(SubSeq(s, timeStart, TimeEnd(s, timeStart) - 1), SpaceSet))

\* rakePercent and rakeDollars keeping only the integer part of the ratio
RowRake_Truncated(totalEntry, prizePool) ==
    IF RakeComputed(totalEntry, prizePool)
    THEN [rakePct     |-> Some(10 * ((1000 * (totalEntry - prizePool[1])) \div totalEntry)),
          rakeDollars |-> Some(totalEntry - prizePool[1])]
    ELSE [rakePct |-> Null, rakeDollars |-> Null]

\* rakePercent computed, rakeDollars left null
RowRake_PercentOnly(totalEntry, prizePool) ==
    IF RakeComputed(totalEntry, prizePool)
    THEN [rakePct     |-> Some(RakePercentOf(totalEntry - prizePool[1], totalEntry)),
          rakeDollars |-> Null]
    ELSE [rakePct |-> Null, rakeDollars |-> Null]

\* rakePercent and rakeDollars (lines 391-396)
RowRake(totalEntry, prizePool) ==
    IF RakeComputed(totalEntry, prizePool)
    THEN [rakePct     |-> Some(RakePercentOf(totalEntry - prizePool[1], totalEntry)),
          rakeDollars |-> Some(totalEntry - prizePool[1])]
    ELSE [rakePct |-> Null, rakeDollars |-> Null]

\* buyin forced to 0 for restarts only
BuyinOf_RestartOnly(totalEntry, isRestart, isFreeroll) ==
    IF isRestart THEN 0 ELSE totalEntry

\* buyin (lines 380-382)
BuyinOf(totalEntry, isRestart, isFreeroll) ==
    IF isRestart \/ isFreeroll THEN 0 ELSE totalEntry

\* the object parseRow returns (lines 376-423)
RowRecord(f, year, venue) ==
    LET prizePool == ColumnValue(f.dollars, 2)
        rowRake   == RowRake(f.totalEntry, prizePool)
    IN  [eventNumber   |-> EventNumberOf(f.firstLine),
         eventName     |-> cleanEventName(f.eventName),
         date          |-> DateStr(f.joined, f.dateStart, year),
         time          |-> TimeStr(f.joined, f.timeStart),
         buyin         |-> BuyinOf(f.totalEntry, f.isRestart, f.isFreeroll),
         prizePool     |-> prizePool,
         houseFee      |-> ColumnValue(f.dollars, 3),
         optAddOn      |-> ColumnValue(f.dollars, 4),
         rakePct       |-> rowRake.rakePct,
         rakeDollars   |-> rowRake.rakeDollars,
         startingChips |-> StartingChipsOf(f.joined),
         levelDuration |-> LevelDurationOf(f.joined),
         reentry       |-> Null,
         lateReg       |-> Null,
         gameVariant   |-> classifyGameVariant(f.eventName),
         venue         |-> venue,
         notes         |-> NotesOf(f.eventName, f.joined),
         isSatellite   |-> f.isSatellite,
         isRestart     |-> f.isRestart,
         targetEvent   |-> TargetEventOf(f.eventName, f.isSatellite),
         parentEvent   |-> ParentEventOf(f.eventName, f.isRestart)]

\* parseRow(rowLines, year, venue): null when the row holds no date
parseRow(rowLines, year, venue) ==
    Bind(RowFacts(rowLines), LAMBDA f :
        IF f.dateStart = 0 THEN Null ELSE Some(RowRecord(f, year, venue)))

\* groupIntoRows from line i on, cur the row being accumulated (<<>> for
\* none): lines before the first row start are dropped (lines 190-208)
RECURSIVE GroupLoop(_, _, _)
GroupLoop(lines, i, cur) ==
    IF i > Len(lines) THEN (IF cur # <<>> THEN <<cur>> ELSE <<>>)
    ELSE IF ROW_START_RE(lines[i])
         THEN (IF cur # <<>> THEN <<cur>> ELSE <<>>) \o GroupLoop(lines, i + 1, <<lines[i]>>)
         ELSE IF cur # <<>> THEN GroupLoop(lines, i + 1, Append(cur, lines[i]))
         ELSE GroupLoop(lines, i + 1, cur)

\* groupIntoRows without the continuation branch of lines 199-202: every
\* row is its row-start line alone
groupIntoRows_StartLinesOnly(lines) ==
    Bind(SelectSeq(lines, ROW_START_RE), LAMBDA starts :
        [k \in 1..Len(starts) |-> <<starts[k]>>])

groupIntoRows(lines) == GroupLoop(lines, 1, <<>>)

\* FOOTER_RE.test(line) (line 30)
FOOTER_RE(line) ==
    \E lit \in {<<"m","u","s","t"," ","b","e"," ","2","1","+">>, <<"p","l","e","a","s","e"," ","p","l","a","y"," ","r","e","s","p","o","n","s","i","b","l","y">>, <<"g","a","m","b","l","e","r">>,
                <<"g","a","m","b","l","i","n","g"," ","h","e","l","p">>, <<"g","a","m","b","l","i","n","g","h","e","l","p">>, <<"n","o"," ","l","o","n","g","e","r"," ","w","i","t","h","h","o","l","d","s">>,
                <<"a","u","t","o","-","g","r","a","t","u","i","t","y">>, <<"o","p","t","i","o","n","a","l"," ","a","d","d","-","o","n">>,
                <<"s","t","r","u","c","t","u","r","e"," ","s","h","e","e","t","s"," ","f","o","r"," ","a"," ","c","o","m","p","l","e","t","e">>} : IncludesCI(line, lit)

\* the header fragments /^word$/i of isColumnHeaderLine
HeaderWords ==
    {<<"e","v","e","n","t">>, <<"e","n","t","r","y">>, <<"p","r","i","z","e">>, <<"p","o","o","l">>, <<"h","o","u","s","e">>, <<"f","e","e">>, <<"o","p","t">>,
     <<"c","h","i","p","s">>, <<"l","e","v","e","l","s">>, <<"b","u","y","-","i","n">>, <<"t","o","t","a","l">>}

\* /^#\s*day/i at the start of s: the position after it, 0 when no match
HashDayEnd(s) ==
    IF ~MatchAt(s, 1, <<"#">>) THEN 0
    ELSE Bind(RunEnd(s, 2, SpaceSet), LAMBDA a :
         IF MatchAtCI(s, a, <<"d","a","y">>) THEN a + 3 ELSE 0)

\* isColumnHeaderLine (lines 98-118)
isColumnHeaderLine(line) ==
    /\ ~ROW_START_RE(line)
    /\ Bind(Trim(ToLower(line)), LAMBDA lower :
          \/ lower \in HeaderWords
          \/ Bind(HashDayEnd(lower), LAMBDA e : e > 0 /\ WordBoundary(lower, e))
          \/ MatchAt(lower, 1, <<"a","d","d","-","o","n">>) /\ WordBoundary(lower, 7)
          \/ Bind(HashDayEnd(line), LAMBDA e :
                /\ e > 0 /\ e <= Len(line) /\ IsSpace(line[e])
                /\ IncludesCI(line, <<"d","a","t","e">>) /\ IncludesCI(line, <<"t","i","m","e">>)))

\* KNOWN_VENUES (lines 21-27), in order
KNOWN_VENUES ==
    <<<<"M","G","M"," ","N","A","T","I","O","N","A","L"," ","H","A","R","B","O","R">>, <<"M","G","M"," ","G","R","A","N","D">>, <<"W","Y","N","N">>, <<"E","N","C","O","R","E">>, <<"V","E","N","E","T","I","A","N">>,
      <<"A","R","I","A">>, <<"B","E","L","L","A","G","I","O">>, <<"R","E","S","O","R","T","S"," ","W","O","R","L","D">>, <<"G","O","L","D","E","N"," ","N","U","G","G","E","T">>, <<"S","O","U","T","H"," ","P","O","I","N","T">>,
      <<"O","R","L","E","A","N","S">>, <<"H","O","R","S","E","S","H","O","E">>, <<"P","A","R","I","S"," ","L","A","S"," ","V","E","G","A","S">>, <<"S","E","M","I","N","O","L","E"," ","H","A","R","D"," ","R","O","C","K">>,
      <<"B","O","R","G","A","T","A">>, <<"F","O","X","W","O","O","D","S">>, <<"M","O","H","E","G","A","N"," ","S","U","N">>, <<"T","H","U","N","D","E","R"," ","V","A","L","L","E","Y">>,
      <<"C","H","O","C","T","A","W">>, <<"B","I","K","E">>, <<"C","O","M","M","E","R","C","E">>, <<"H","A","R","D"," ","R","O","C","K"," ","H","O","L","L","Y","W","O","O","D">>>>

\* VENUE_DISPLAY (lines 144-167), in the order of KNOWN_VENUES
VENUE_DISPLAY ==
    <<<<"M","G","M"," ","N","a","t","i","o","n","a","l"," ","H","a","r","b","o","r">>, <<"M","G","M"," ","G","r","a","n","d">>, <<"W","y","n","n"," ","L","a","s"," ","V","e","g","a","s">>, <<"W","y","n","n"," ","L","a","s"," ","V","e","g","a","s">>, <<"V","e","n","e","t","i","a","n">>,
      <<"A","r","i","a">>, <<"B","e","l","l","a","g","i","o">>, <<"R","e","s","o","r","t","s"," ","W","o","r","l","d">>, <<"G","o","l","d","e","n"," ","N","u","g","g","e","t">>, <<"S","o","u","t","h"," ","P","o","i","n","t">>,
      <<"O","r","l","e","a","n","s">>, <<"H","o","r","s","e","s","h","o","e"," ","/"," ","P","a","r","i","s"," ","L","a","s"," ","V","e","g","a","s">>, <<"H","o","r","s","e","s","h","o","e"," ","/"," ","P","a","r","i","s"," ","L","a","s"," ","V","e","g","a","s">>, <<"S","e","m","i","n","o","l","e"," ","H","a","r","d"," ","R","o","c","k">>,
      <<"B","o","r","g","a","t","a">>, <<"F","o","x","w","o","o","d","s">>, <<"M","o","h","e","g","a","n"," ","S","u","n">>, <<"T","h","u","n","d","e","r"," ","V","a","l","l","e","y">>,
      <<"C","h","o","c","t","a","w">>, <<"T","h","e"," ","B","i","c","y","c","l","e"," ","C","a","s","i","n","o">>, <<"C","o","m","m","e","r","c","e"," ","C","a","s","i","n","o">>, <<"H","a","r","d"," ","R","o","c","k"," ","H","o","l","l","y","w","o","o","d">>>>

\* KNOWN_VENUES.some(v => line.toUpperCase().includes(v))
NamesKnownVenue(line) ==
    \E k \in 1..Len(KNOWN_VENUES) : Includes(ToUpper(line), KNOWN_VENUES[k])

\* the words /POKER OPEN|WINTER|SUMMER|SPRING|CLASSIC|CHAMPIONSHIP/i
SeriesWords ==
    {<<"p","o","k","e","r"," ","o","p","e","n">>, <<"w","i","n","t","e","r">>, <<"s","u","m","m","e","r">>, <<"s","p","r","i","n","g">>, <<"c","l","a","s","s","i","c">>, <<"c","h","a","m","p","i","o","n","s","h","i","p">>}

\* the names /^(JANUARY|...|DECEMBER)\s+\d/i begins with, in lower case
FullMonthNames == {ToLower(MONTH_FULL[k]) : k \in 1..Len(MONTH_FULL)}

\* new RegExp(`\\b${year}\\b`).test(line)
HasYear(line, year) == HasWord(line, IntToStr(year))

\* isMetadataLine (lines 120-128)
isMetadataLine(line, year) ==
    \/ /\ DigitsAt(line, 1, 4)
       /\ Bind(RunEnd(line, 5, SpaceSet), LAMBDA a :
             a > 5 /\ MatchAtCI(line, a, <<"p","o","t","o","m","a","c">>))
    \/ \E w \in SeriesWords : IncludesCI(line, w)
    \/ \E m \in FullMonthNames :
          /\ MatchAtCI(line, 1, m)
          /\ Bind(RunEnd(line, Len(m) + 1, SpaceSet), LAMBDA a :
                a > Len(m) + 1 /\ a <= Len(line) /\ IsDigit(line[a]))
    \/ HasYear(line, year) /\ ~ROW_START_RE(line)
    \/ NamesKnownVenue(line) /\ ~ROW_START_RE(line)
    \/ MatchAtCI(line, 1, <<"p","r","e","s","e","n","t","e","d"," ","b","y">>)

\* the length of text.slice(0, 500), the header detectYear looks at
HeaderChars == 500

\* the offset in the text of the first character of line k: the lines
\* before it and their line breaks
RECURSIVE LineOffset(_, _)
LineOffset(lines, k) ==
    IF k = 1 THEN 0 ELSE LineOffset(lines, k - 1) + Len(lines[k - 1]) + 1

\* /\b(202\d|203\d)\b/ matching at position i of line k, within the header
YearAt(lines, k, i) ==
    /\ WordBoundary(lines[k], i)
    /\ MatchAt(lines[k], i, <<"2", "0", "2">>) \/ MatchAt(lines[k], i, <<"2", "0", "3">>)
    /\ DigitsAt(lines[k], i, 4)
    /\ Bind(LineOffset(lines, k) + i + 3, LAMBDA last :
          /\ last <= HeaderChars
          /\ last = HeaderChars \/ WordBoundary(lines[k], i + 4))

\* the first line of lines that holds a year within the header, 0 when
\* none does
FirstYearLine(lines) ==
    FirstOf({k \in 1..Len(lines) : \E i \in 1..Len(lines[k]) : YearAt(lines, k, i)})

\* the year that starts at the leftmost such position of line k
FirstYearOf(lines, k) ==
    Bind(FirstOf({i \in 1..Len(lines[k]) : YearAt(lines, k, i)}), LAMBDA i :
        ParseDigits(SubSeq(lines[k], i, i + 3)))

\* detectYear (lines 132-139): the first year in the header, else the
\* current year
detectYear(lines, thisYear) ==
    Bind(FirstYearLine(lines), LAMBDA k :
        IF k = 0 THEN thisYear ELSE FirstYearOf(lines, k))

UnknownVenue == <<"U","n","k","n","o","w","n"," ","V","e","n","u","e">>

\* detectVenue (lines 169-177)
detectVenue(lines) ==
    Bind(FirstOf({k \in 1..Len(KNOWN_VENUES) :
                    \E j \in 1..Len(lines) : Includes(ToUpper(lines[j]), KNOWN_VENUES[k])}),
         LAMBDA k : IF k = 0 THEN UnknownVenue ELSE VENUE_DISPLAY[k])

\* the inner loop of step 2 over the lines of a page from line i on, done
\* being pageHeaderDone (lines 49-75)
RECURSIVE DataLinesLoop(_, _, _, _)
DataLinesLoop(page, i, done, year) ==
    IF i > Len(page) THEN <<>>
    ELSE Bind(Trim(page[i]), LAMBDA line :
         IF line = <<>> \/ FOOTER_RE(line) THEN DataLinesLoop(page, i + 1, done, year)
         ELSE IF isColumnHeaderLine(line) THEN DataLinesLoop(page, i + 1, TRUE, year)
         ELSE IF ~done /\ (isMetadataLine(line, year) \/ ~ROW_START_RE(line))
         THEN DataLinesLoop(page, i + 1, done, year)
         ELSE <<line>> \o DataLinesLoop(page, i + 1, TRUE, year))

\* step 2 of parseGenericSchedule: the data lines of all the pages
RECURSIVE DataLines(_, _)
DataLines(pages, year) ==
    IF Len(pages) = 0 THEN <<>>
    ELSE DataLinesLoop(Head(pages), 1, FALSE, year) \o DataLines(Tail(pages), year)

\* pages.join('\n') as lines
RECURSIVE JoinPages(_)
JoinPages(pages) ==
    IF Len(pages) = 0 THEN <<>> ELSE Head(pages) \o JoinPages(Tail(pages))

\* text.split(/-- \d+ of \d+ --/).filter(p => p.trim())
NonBlankPages(txt) == SelectSeq(SplitPages(txt, 1, Len(txt)), PageNotBlank)

\* t.eventNumber.replace(/[A-G]$/i, '')
BaseNumber(evNum) ==
    IF Len(evNum) > 0 /\ ToUpperChar(evNum[Len(evNum)]) \in {"A", "B", "C", "D", "E", "F", "G"}
    THEN SubSeq(evNum, 1, Len(evNum) - 1) ELSE evNum

\* the keys of eventMap without the replace of line 449: the event numbers
\* with their flight letter
EventMapKeys_WithLetter(ts) ==
    {ts[k].eventNumber :
        k \in {j \in 1..Len(ts) : ts[j].eventNumber # <<>> /\ ~ts[j].isRestart}}

\* the keys of eventMap (lines 445-452): the base numbers of the records
\* with an event number that are not restarts
EventMapKeys(ts) ==
    {BaseNumber(ts[k].eventNumber) :
        k \in {j \in 1..Len(ts) : ts[j].eventNumber # <<>> /\ ~ts[j].isRestart}}

\* a property name that is an array index: the canonical decimal of a number
IsIndexKey(key) == key # <<>> /\ key = IntToStr(ParseDigits(key))

\* where a key was first inserted into eventMap
FirstInserted(ts, key) ==
    Leftmost({j \in 1..Len(ts) :
                 ts[j].eventNumber # <<>> /\ ~ts[j].isRestart
                 /\ BaseNumber(ts[j].eventNumber) = key})

\* key a comes before key b in Object.entries(eventMap): index keys in
\* ascending order, then the other keys in insertion order
EntryBefore(ts, a, b) ==
    IF IsIndexKey(a) /\ IsIndexKey(b) THEN ParseDigits(a) < ParseDigits(b)
    ELSE IF IsIndexKey(a) # IsIndexKey(b) THEN IsIndexKey(a)
    ELSE FirstInserted(ts, a) < FirstInserted(ts, b)

\* the keys of eventMap that the name of the record t refers to (lines
\* 460-461)
ReferredKeys(ts, t) ==
    {key \in EventMapKeys(ts) :
        \/ Includes(t.eventName, <<"E","V","E","N","T"," ">> \o key \o <<" ">>)
        \/ Includes(t.eventName, <<"E","V","E","N","T"," ">> \o key \o <<"\t">>)}

\* the parent the loop of lines 455-467 infers for the record t
InferredParent(ts, t) ==
    Bind(ReferredKeys(ts, t), LAMBDA hits :
        IF hits = {} THEN t.parentEvent
        ELSE CHOOSE key \in hits : \A other \in hits \ {key} : EntryBefore(ts, key, other))

\* linking that infers a parent for every record without one, restart or not
linkRestartsToParents_EveryRecord(ts) ==
    [k \in 1..Len(ts) |->
        Bind(ts[k], LAMBDA t :
            IF t.parentEvent = Null
            THEN [t EXCEPT !.parentEvent = InferredParent(ts, t)]
            ELSE t)]

\* linkRestartsToParents (lines 443-468)
linkRestartsToParents(ts) ==
    [k \in 1..Len(ts) |->
        Bind(ts[k], LAMBDA t :
            IF t.isRestart /\ t.parentEvent = Null
            THEN [t EXCEPT !.parentEvent = InferredParent(ts, t)]
            ELSE t)]

\* the rows of step 3, from the pages and the year detected
RowsOf(pages, year) == groupIntoRows(DataLines(pages, year))

\* step 4 keeping only the rows in which a time token was found
RECURSIVE ParsedRows_TimedOnly(_, _, _)
ParsedRows_TimedOnly(facts, year, venue) ==
    IF Len(facts) = 0 THEN <<>>
    ELSE (IF Head(facts).dateStart = 0 \/ Head(facts).timeStart = 0 THEN <<>>
          ELSE <<RowRecord(Head(facts), year, venue)>>)
         \o ParsedRows_TimedOnly(Tail(facts), year, venue)

\* step 4 on the facts extracted from each row, in order: the records of the
\* rows that hold a date (lines 82-88)
RECURSIVE ParsedRows(_, _, _)
ParsedRows(facts, year, venue) ==
    IF Len(facts) = 0 THEN <<>>
    ELSE (IF Head(facts).dateStart = 0 THEN <<>>
          ELSE <<RowRecord(Head(facts), year, venue)>>)
         \o ParsedRows(Tail(facts), year, venue)

\* steps 4 and 5: the records, restarts linked to their parents
RecordsOf(facts, year, venue) == linkRestartsToParents(ParsedRows(facts, year, venue))

\* what parseRow extracts from each row, in order
RECURSIVE FactsOf(_)
FactsOf(rows) ==
    IF Len(rows) = 0 THEN <<>> ELSE <<RowFacts(Head(rows))>> \o FactsOf(Tail(rows))

\* the steps of parseGenericSchedule(text, { venue: venueOpt }) on pages in
\* the year detected: dataLines is the array of step 2, facts what parseRow
\* extracted from each row of step 3, parsed the array tournaments after
\* step 4, records the array returned
PagesOutcome(pages, year, venue) ==
    Bind(DataLines(pages, year), LAMBDA lines :
    Bind(FactsOf(groupIntoRows(lines)), LAMBDA facts :
    Bind(ParsedRows(facts, year, venue), LAMBDA parsed :
        [dataLines |-> lines, facts |-> facts, parsed |-> parsed,
         records |-> linkRestartsToParents(parsed)])))

\* parseGenericSchedule(text, { venue: venueOpt }) in a year thisYear
\* (lines 32-94)
ParseOutcome(txt, venueOpt, thisYear) ==
    Bind(NonBlankPages(txt), LAMBDA pages :
    Bind(JoinPages(pages), LAMBDA all :
        PagesOutcome(pages, detectYear(all, thisYear),
                     IF venueOpt # Null THEN venueOpt ELSE detectVenue(all))))

\* parseGenericSchedule(text, { venue: venueOpt }) in a year thisYear
parseGenericSchedule(txt, venueOpt, thisYear) ==
    ParseOutcome(txt, venueOpt, thisYear).records

---------------------------------------------------------------------------
(* Specification of the row pipeline: one call of parseGenericSchedule on  *)
(* a text of table rows, each a row start (an optional event number, a day *)
(* and a date) followed by an optional time, a name, up to four amounts,   *)
(* chips and levels                                                        *)

RowStarts == {<<"M","O","N"," ","J","A","N"," ","5">>, <<"1","4","A","\t","T","h","u","r","s"," ","D","e","c"," ","3">>}

TimeTokens == {<<>>, <<" ","1","0","A","M">>, <<" ","7",":","1","5"," ","p","m">>}

RowNames ==
    {<<>>, <<" ","N","L","H">>, <<" ","E","V","E","N","T"," ","1"," ","N","L","H"," ","D","A","Y"," ","2"," ","R","E","S","T","A","R","T">>, <<" ","N","L","H"," ","M","A","I","N"," ","E","V","E","N","T"," ","F","I","N","A","L"," ","T","A","B","L","E">>,
     <<" ","S","E","N","I","O","R","S"," ","F","R","E","E","R","O","L","L">>, <<" ","$","5","0",",","0","0","0"," ","G","U","A","R","A","N","T","E","E","D"," ","N","L","H"," ","B","O","U","N","T","Y">>, <<" ","I","N","V","I","T","E"," ","O","N","L","Y">>,
     <<" ","E","V","E","N","T"," ","1","4"," ","M","I","L","E","S","T","O","N","E"," ","S","A","T","E","L","L","I","T","E">>, <<" ","T","A","G"," ","T","E","A","M"," ","$","3","0","0"," ","P","E","R"," ","T","E","A","M">>,
     <<" ","M","E","G","A"," ","S","A","T","E","L","L","I","T","E">>, <<" ","S","U","P","E","R"," ","S","A","T"," ","T","O"," ","E","V","E","N","T"," ","1","4">>, <<" ","D","A","Y"," ","2"," ","R","E","S","T","A","R","T">>,
     <<" ","E","V","E","N","T"," ","1","2"," ","M","A","I","N"," ","E","V","E","N","T"," ","D","A","Y"," ","2"," ","R","E","S","T","A","R","T">>, <<" ","1","0","0","K"," ","G","T","D"," ","R","E","S","T","A","R","T">>}

AmountColumns ==
    {<<>>, <<" ","$","6","0","0">>, <<" ","$","6","0","0"," ","$","5","0","5">>, <<" ","$","6","0","0"," ","$","5","0","5"," ","$","5","5">>, <<" ","$","6","0","0"," ","$","5","0","5"," ","$","5","5"," ","$","4","0">>,
     <<" ","$","4","0","0"," ","$","3","9","9">>, <<" ","$","0"," ","$","1","0","0">>, <<" ","$","3","0","0"," ","$","0">>, <<" ","$","3","0","0"," ","$","4","0","0">>}

RowTails == {<<>>, <<" ","2","0","K"," ","2","0">>}

\* rows whose first amount follows the time token with nothing in between
GluedRows == {<<"M","O","N"," ","J","A","N"," ","5"," ","1","0","A","M","$","6","0","0"," ","$","5","0","5"," ","2","0","K"," ","2","0">>, <<"T","U","E","S"," ","J","A","N"," ","6"," ","7",":","1","5"," ","p","m","$","4","0","0"," ","N","L","H"," ","$","3","4","0">>}

\* the one-line rows
RowLineInputs ==
    {a \o b \o c \o d \o e :
        a \in RowStarts, b \in TimeTokens, c \in RowNames, d \in AmountColumns, e \in RowTails}

\* lines that come before the rows of a page: titles, venue, column headers
HeaderBlocks ==
    {<<>>,
     <<<<"2","0","2","7"," ","P","O","T","O","M","A","C"," ","W","I","N","T","E","R"," ","P","O","K","E","R"," ","O","P","E","N">>, <<"M","G","M"," ","N","A","T","I","O","N","A","L"," ","H","A","R","B","O","R">>,
       <<"#"," ","D","a","y"," ","\t","D","a","t","e"," ","\t","T","i","m","e"," ","\t","E","v","e","n","t"," ","T","o","t","a","l">>, <<"E","n","t","r","y">>, <<"P","r","i","z","e">>, <<"P","o","o","l">>>>,
     <<<<"W","y","n","n"," ","S","u","m","m","e","r"," ","C","l","a","s","s","i","c">>, <<"J","A","N","U","A","R","Y"," ","5"," ","-"," ","2","0">>, <<"E","v","e","n","t">>>>}

\* rows of one or two lines
SampleRows ==
    {<<<<"1","A"," ","M","O","N"," ","J","A","N"," ","5"," ","1","0","A","M"," ","E","V","E","N","T"," ","1"," ","N","L","H"," ","O","P","E","N","E","R">>, <<"$","5","0",",","0","0","0"," ","G","U","A","R","A","N","T","E","E","D"," ","$","6","0","0"," ","$","5","0","5"," ","$","5","5"," ","$","4","0"," ","2","0","K"," ","3","0">>>>,
     <<<<"M","O","N"," ","J","A","N"," ","6"," ","1","2","P","M"," ","E","V","E","N","T"," ","1"," ","N","L","H"," ","D","A","Y"," ","2"," ","R","E","S","T","A","R","T"," ","2","0","K"," ","2","0">>>>,
     <<<<"T","U","E","S"," ","J","A","N"," ","7"," ","2","P","M"," ","E","V","E","N","T"," ","$","5",",","0","0","0"," ","G","U","A","R","A","N","T","E","E","D"," ","1"," ","R","E","S","T","A","R","T">>>>,
     <<<<"0","7"," ","W","E","D"," ","J","A","N"," ","8"," ","1","1","A","M"," ","P","L","O"," ","B","O","U","N","T","Y"," ","(","2","-","D","A","Y"," ","E","V","E","N","T",")">>, <<"$","4","0","0"," ","$","3","4","0"," ","2","0","K"," ","3","0",",","4","0">>>>,
     <<<<"T","H","U","R","S"," ","J","A","N"," ","9"," ","N","L","H"," ","T","U","R","B","O"," ","$","2","0","0"," ","1","5","K"," ","2","0">>>>,
     <<<<"F","R","I"," ","J","A","N"," ","1","0"," ","6","P","M"," ","M","A","I","N"," ","E","V","E","N","T"," ","S","U","P","E","R"," ","S","A","T","E","L","L","I","T","E"," ","$","2","5","0"," ","$","2","1","5"," ","$","3","5">>>>}

MaxGenericRows == 2

\* the lines of a sequence of rows
RECURSIVE Flatten(_)
Flatten(rws) == IF Len(rws) = 0 THEN <<>> ELSE Head(rws) \o Flatten(Tail(rws))

TableBodies == {Flatten(rws) : rws \in SeqsUpTo(SampleRows, MaxGenericRows)}

FooterLine == <<"M","U","S","T"," ","B","E"," ","2","1","+"," ","T","O"," ","P","L","A","Y","."," ","P","L","E","A","S","E"," ","P","L","A","Y"," ","R","E","S","P","O","N","S","I","B","L","Y",".">>

\* one-page tables, and two-page texts with a row on each page
TableTexts ==
    {h \o b \o <<FooterLine>> : h \in HeaderBlocks, b \in TableBodies}
    \cup {h \o a \o <<FooterLine, PageMarker, <<"E","v","e","n","t">>>> \o b :
             h \in HeaderBlocks, a \in SampleRows, b \in SampleRows}

\* a table under no column header whose first row names a series: step 2
\* takes that line for a title
UntitledTexts ==
    {<<<<"M","O","N"," ","J","A","N"," ","5"," ","1","0","A","M"," ","W","I","N","T","E","R"," ","C","L","A","S","S","I","C"," ","$","6","0","0"," ","$","5","0","5"," ","2","0","K"," ","2","0">>,
       <<"T","U","E","S"," ","J","A","N"," ","6"," ","1","2","P","M"," ","N","L","H"," ","$","4","0","0"," ","$","3","4","0"," ","2","0","K"," ","2","0">>, FooterLine>>}

\* a table with a notice between the column header and the first row: step
\* 2 keeps the notice as a data line
NoticeTexts ==
    {<<<<"E","v","e","n","t">>, <<"S","c","h","e","d","u","l","e"," ","s","u","b","j","e","c","t"," ","t","o"," ","c","h","a","n","g","e">>>> \o a \o b \o <<FooterLine>> :
        a \in SampleRows, b \in SampleRows}

VenueOptions == {Null, <<"H","o","m","e"," ","G","a","m","e">>}

\* the years the call can be made in
CurrentYears == {Year2026, Year2026 + 1}

\* rowFacts, dataLines and parsedRows record the steps of the call; the
\* one-line rows are parsed without a venue option; the tables with and
\* without one, in either year
InitGeneric ==
    /\ pc = "generic_call"
    /\ \/ /\ text \in {<<row>> : row \in RowLineInputs \cup GluedRows}
          /\ venueOption = Null
          /\ currentYear = Year2026
       \/ /\ text \in TableTexts \cup UntitledTexts \cup NoticeTexts
          /\ venueOption \in VenueOptions
          /\ currentYear \in CurrentYears
    /\ rowFacts = <<>>
    /\ dataLines = <<>>
    /\ parsedRows = <<>>
    /\ tournaments = <<>>
    /\ pageSections = <<>>
    /\ IdleRake /\ IdleClassify /\ IdleRepeat /\ IdleDetect /\ IdleServer

\* parseGenericSchedule(text, { venue: venueOption }); rowFacts records what
\* parseRow extracted from each row
CallParseGenericSchedule ==
    /\ pc = "generic_call"
    /\ \E outcome \in {ParseOutcome(text, venueOption, currentYear)} :
          /\ dataLines' = outcome.dataLines
          /\ rowFacts' = outcome.facts
          /\ parsedRows' = outcome.parsed
          /\ tournaments' = outcome.records
    /\ pc' = "generic_done"
    /\ UNCHANGED <<text, venueOption, currentYear, pageSections, rakeVars, classifyVars,
                   repeatVars, format, serverVars>>

NextGeneric == CallParseGenericSchedule

SpecGeneric == InitGeneric /\ [][NextGeneric]_vars

---------------------------------------------------------------------------
(* Specification of both parsers: the call the upload handler makes on a   *)
(* text, parseWSOP2025Schedule or parseGenericSchedule                     *)

InitParsers == InitColumnar \/ InitGeneric

NextParsers == NextColumnar \/ NextGeneric

SpecParsers == InitParsers /\ [][NextParsers]_vars

---------------------------------------------------------------------------
(* Claims about the records of both pipelines                              *)

GenericDone == pc = "generic_done"

ParseDone == ColumnarDone \/ GenericDone

AllRakeFields == {"prizePool", "houseFee", "optAddOn", "rakePct", "rakeDollars"}

\* the rake fields of a record that are set
RakeFieldsSet(t) == {fld \in AllRakeFields : t[fld] # Null}

\* C6 as stated: in every record of either pipeline the five rake fields
\* prizePool, houseFee, optAddOn, rakePct, rakeDollars are all set or all
\* unset
C6_AllOrNone ==
    ParseDone =>
        \A k \in 1..Len(tournaments) : RakeFieldsSet(tournaments[k]) \in {{}, AllRakeFields}

\* C6, as the code has it: a columnar record has the five rake fields all set or all
\* unset; a row record has rakePct and rakeDollars both set or both unset,
\* and set only with prizePool; its houseFee is set only with prizePool and
\* its optAddOn only with houseFee (the amounts fill in column order)
C6_RakeFieldsConsistent ==
    /\ ColumnarDone =>
          \A k \in 1..Len(tournaments) : RakeFieldsSet(tournaments[k]) \in {{}, AllRakeFields}
    /\ GenericDone =>
          \A k \in 1..Len(tournaments) :
              LET t == tournaments[k] IN
              /\ (t.rakePct # Null) <=> (t.rakeDollars # Null)
              /\ t.rakePct # Null => t.prizePool # Null
              /\ t.houseFee # Null => t.prizePool # Null
              /\ t.optAddOn # Null => t.houseFee # Null

\* a row with two column amounts: prizePool, rakePct and rakeDollars are set,
\* houseFee and optAddOn are not
C6_Witness ==
    /\ GenericDone
    /\ \E k \in 1..Len(tournaments) :
          RakeFieldsSet(tournaments[k]) = {"prizePool", "rakePct", "rakeDollars"}

\* C7: every record of either pipeline has a non-blank eventName
C7_EventNameNeverBlank ==
    ParseDone => \A k \in 1..Len(tournaments) : Trim(tournaments[k].eventName) # <<>>

\* the facts of the rows that gave a record, in the order of the records
RecordFacts == SelectSeq(rowFacts, LAMBDA f : f.dateStart > 0)

\* C8: in every record, buyin = 0 implies the record is a restart or the
\* row was detected as a freeroll
C8_ZeroBuyinIsRestartOrFreeroll ==
    /\ ColumnarDone => \A k \in 1..Len(tournaments) : tournaments[k].buyin # 0
    /\ GenericDone =>
          \A k \in 1..Len(tournaments) :
              tournaments[k].buyin = 0 =>
                  tournaments[k].isRestart \/ RecordFacts[k].isFreeroll

---------------------------------------------------------------------------
(* Claims about the row pipeline                                           *)

\* a positive total entry and a positive prize pool were found in the row
HasEntryAndPool(f) ==
    f.totalEntry > 0 /\ Len(f.dollars) >= 2 /\ f.dollars[2].value > 0

\* pct (hundredths of a percent) is a whole number of tenths of a percent,
\* the nearest to 100 * num / den percent
IsNearestTenth(pct, num, den) ==
    /\ pct % 10 = 0
    /\ LET q == pct \div 10 IN
       (2 * q - 1) * den <= 2000 * num /\ 2000 * num <= (2 * q + 1) * den

\* C9: in the row pipeline rakeDollars and rakePct are set exactly when the
\* total entry is positive and a positive prize pool was found; then
\* rakeDollars = totalEntry - prizePool and rakePct is that difference over
\* totalEntry as a percentage rounded to one decimal; otherwise both are unset
C9_RowRake ==
    GenericDone =>
        \A k \in 1..Len(tournaments) :
            LET t == tournaments[k]
                f == RecordFacts[k]
            IN  IF HasEntryAndPool(f)
                THEN /\ t.rakeDollars = Some(f.totalEntry - f.dollars[2].value)
                     /\ t.rakePct # Null
                     /\ IsNearestTenth(t.rakePct[1], f.totalEntry - f.dollars[2].value, f.totalEntry)
                ELSE t.rakeDollars = Null /\ t.rakePct = Null

\* a row with total entry 600 and prize pool 505: rakeDollars 95, rakePct
\* 15.8 (95/600 is 15.83%)
C9_Witness ==
    /\ GenericDone
    /\ \E k \in 1..Len(tournaments) :
          /\ RecordFacts[k].totalEntry = 600
          /\ tournaments[k].prizePool = Some(505)
          /\ tournaments[k].rakeDollars = Some(95)
          /\ tournaments[k].rakePct = Some(1580)

\* C10: in the row pipeline buyin is the total-entry amount, the first
\* column dollar value, unless the name marks a restart or the row is a
\* freeroll; then buyin is 0
C10_RowBuyin ==
    GenericDone =>
        \A k \in 1..Len(tournaments) :
            LET t == tournaments[k]
                f == RecordFacts[k]
            IN  /\ f.totalEntry = (IF Len(f.dollars) > 0 THEN f.dollars[1].value ELSE 0)
                /\ t.isRestart = f.isRestart
                /\ t.buyin = IF f.isRestart \/ f.isFreeroll THEN 0 ELSE f.totalEntry

\* a freeroll row that is not a restart and holds a total-entry amount:
\* buyin is forced to 0
C10_Witness ==
    /\ GenericDone
    /\ \E k \in 1..Len(tournaments) :
          /\ RecordFacts[k].isFreeroll /\ ~tournaments[k].isRestart
          /\ RecordFacts[k].totalEntry > 0
          /\ tournaments[k].buyin = 0

\* the event a name refers to, as the contract words it: the number of the
\* first EVENT n in the name, else MAIN EVENT when the name holds these
\* words, else nothing
StatedReference(name) ==
    IF \E i \in 1..Len(name) : EventRefAt(name, i) > 0
    THEN EventRefNumber(name, FirstOf({i \in 1..Len(name) : EventRefAt(name, i) > 0}))
    ELSE IF IncludesCI(name, <<"m","a","i","n"," ","e","v","e","n","t">>) THEN MainEvent
    ELSE Null

\* C11: a row whose extracted name is a satellite (SATELLITE or SUPER SAT)
\* has targetEvent n when the name holds an explicit EVENT n reference, else
\* MAIN EVENT when the name refers to the main event, else unset; a record
\* that is not a satellite never has targetEvent set
C11_TargetEvent ==
    GenericDone =>
        \A k \in 1..Len(tournaments) :
            /\ tournaments[k].isSatellite = IsSatelliteName(RecordFacts[k].eventName)
            /\ tournaments[k].targetEvent =
                   IF tournaments[k].isSatellite
                   THEN StatedReference(RecordFacts[k].eventName) ELSE Null

\* C12: after row parsing a restart row has parentEvent n when its name
\* holds an explicit EVENT n reference (also when it names the main event
\* too), else MAIN EVENT when the name refers to the main event, else unset;
\* a record that is not a restart has parentEvent unset after row parsing
\* and after linking
C12_ParentEvent ==
    GenericDone =>
        /\ Len(parsedRows) = Len(tournaments)
        /\ \A k \in 1..Len(parsedRows) :
              /\ parsedRows[k].isRestart = IsRestartName(RecordFacts[k].eventName)
              /\ tournaments[k].isRestart = parsedRows[k].isRestart
              /\ parsedRows[k].parentEvent =
                     IF parsedRows[k].isRestart
                     THEN StatedReference(RecordFacts[k].eventName) ELSE Null
              /\ ~tournaments[k].isRestart => tournaments[k].parentEvent = Null

\* a restart whose name holds both EVENT 12 and MAIN EVENT: its parent is 12
C12_Witness ==
    /\ GenericDone
    /\ \E k \in 1..Len(parsedRows) :
          /\ parsedRows[k].isRestart
          /\ IncludesCI(RecordFacts[k].eventName, <<"m","a","i","n"," ","e","v","e","n","t">>)
          /\ parsedRows[k].parentEvent = <<"1","2">>
          /\ tournaments[k].parentEvent = <<"1","2">>

\* s ends with a chip token and a level token that start at position i:
\* " <d>K <n>", n of one or two digits
ChipLevelTailAt(s, i) ==
    /\ i > 1 /\ i <= Len(s) /\ s[i - 1] = " " /\ IsDigit(s[i])
    /\ Bind(RunEnd(s, i, DigitSet), LAMBDA e :
          /\ e + 2 <= Len(s) /\ s[e] = "K" /\ s[e + 1] = " "
          /\ Len(s) - (e + 1) \in {1, 2}
          /\ \A j \in (e + 2)..Len(s) : IsDigit(s[j]))

\* where that tail starts in s, 0 when s does not end with one
ChipLevelTail(s) == FirstOf({i \in 1..Len(s) : ChipLevelTailAt(s, i)})

\* C13: a row that has a time token, no column dollar values and ends with
\* a chip token and a level token "<d>K <n>" has startingChips = d * 1000,
\* levelDuration = "<n>", and as event name the text after the time token
\* with those two trailing tokens removed
C13_TrailingChipsAndLevel ==
    GenericDone =>
        \A k \in 1..Len(tournaments) :
            LET f == RecordFacts[k]
                i == ChipLevelTail(f.joined)
                e == RunEnd(f.joined, i, DigitSet)
            IN  (f.timeStart > 0 /\ Len(f.dollars) = 0 /\ i > 0) =>
                    /\ tournaments[k].startingChips = Some(ParseDigits(SubSeq(f.joined, i, e - 1)) * 1000)
                    /\ tournaments[k].levelDuration = SubSeq(f.joined, e + 2, Len(f.joined))
                    /\ f.eventName = Trim(SubSeq(f.joined, TimeEnd(f.joined, f.timeStart), i - 1))

---------------------------------------------------------------------------
(* Specification of repeated parsing: a pipeline is called on a text, and  *)
(* later called again on the same text with the same options               *)

\* one-row tables under each header block
RepeatTexts == {h \o r \o <<FooterLine>> : h \in HeaderBlocks, r \in SampleRows}

InitRepeat == InitColumnar \/ (InitGeneric /\ text \in RepeatTexts)

\* parseGenericSchedule(text, { venue: venueOption }) once more, in the same
\* year or in the next one
CallParseGenericAgain ==
    /\ pc = "generic_done"
    /\ \E y \in {currentYear, currentYear + 1} :
          /\ repeatYear' = y
          /\ repeated' = parseGenericSchedule(text, venueOption, y)
    /\ pc' = "generic_again"
    /\ UNCHANGED <<columnarVars, genericVars, rakeVars, classifyVars, format, serverVars>>

\* parseWSOP2025Schedule(text, 2026) once more
CallParseWSOPAgain ==
    /\ pc = "wsop_done"
    /\ repeated' = parseWSOP2025Schedule(text, Year2026)
    /\ pc' = "wsop_again"
    /\ UNCHANGED <<columnarVars, genericVars, rakeVars, classifyVars, repeatYear, format, serverVars>>

NextRepeat == NextParsers \/ CallParseGenericAgain \/ CallParseWSOPAgain

SpecRepeat == InitRepeat /\ [][NextRepeat]_vars

\* C14: two calls of a pipeline on the same text with the same options (or
\* the same year) return equal record lists, whenever the calls are made
C14_Deterministic ==
    pc \in {"generic_again", "wsop_again"} => repeated = tournaments

---------------------------------------------------------------------------
(* Claims about pages and order                                            *)

\* the pages of a text, blank ones included
PagesOfText(txt) == SplitPages(txt, 1, Len(txt))

\* the outputs of each page parsed alone, one after the other in page order
RECURSIVE PageByPage(_, _)
PageByPage(pages, year) ==
    IF Len(pages) = 0 THEN <<>>
    ELSE parseWSOP2025Schedule(Head(pages), year) \o PageByPage(Tail(pages), year)

\* C15: in the columnar pipeline an info page and a page that yields no
\* event-number entries contribute no record, and the output for a text is
\* the concatenation, in page order, of the outputs of its pages parsed
\* alone
C15_PagesIndependent ==
    ColumnarDone =>
        /\ \A k \in 1..Len(PagesOfText(text)) :
              (\/ IsInfoPage(PagesOfText(text)[k])
               \/ Len(PageSections(PagesOfText(text)[k]).eventNumbers) = 0)
                  => parseWSOP2025Schedule(PagesOfText(text)[k], Year2026) = <<>>
        /\ tournaments = PageByPage(PagesOfText(text), Year2026)

\* a two-page text whose first page is an info page or holds no event
\* number and whose second page gives records
C15_Witness ==
    /\ ColumnarDone
    /\ Len(PagesOfText(text)) = 2
    /\ \/ IsInfoPage(PagesOfText(text)[1])
       \/ Len(PageSections(PagesOfText(text)[1]).eventNumbers) = 0
    /\ PageNotBlank(PagesOfText(text)[1])
    /\ Len(tournaments) > 0

\* the lines of a text, trimmed
TrimmedText(txt) == [k \in 1..Len(txt) |-> Trim(txt[k])]

\* sub is a subsequence of the lines of full from position from on: its
\* lines appear there in the same order
RECURSIVE IsSubsequence(_, _, _)
IsSubsequence(sub, full, from) ==
    IF Len(sub) = 0 THEN TRUE
    ELSE Bind(FirstOf({j \in from..Len(full) : full[j] = Head(sub)}), LAMBDA j :
             j > 0 /\ IsSubsequence(Tail(sub), full, j + 1))

\* the month and day a row-start line names, as the records write them
LineDate(line) ==
    Bind(Joined(<<line>>), LAMBDA s :
    Bind(FirstOf({i \in 1..Len(s) : DateEnd(s, i) > 0}), LAMBDA i :
        MONTH_FULL[AltAt(s, DateMonthStart(s, i), MonthAbbrs)] \o <<" ">>
        \o IntToStr(ParseDigits(SubSeq(s, DateDayStart(s, i), DateEnd(s, i) - 1)))
        \o <<",">>))

\* the row-start lines among the data lines, in order
RowStartLines == SelectSeq(dataLines, ROW_START_RE)

\* the row-start lines of the text, in order
TextRowStarts == SelectSeq(TrimmedText(text), ROW_START_RE)

\* the k-th record carries the event number and the date of the line
FromLine(k, line) ==
    /\ tournaments[k].eventNumber = EventNumberOf(TabsToSpace(line))
    /\ MatchAt(tournaments[k].date, 1, LineDate(line))

\* C16: records are in order of appearance in the source text, never
\* re-sorted: in the row pipeline the k-th record comes from the k-th
\* row-start line of the text; in the columnar pipeline the records carry
\* event numbers found at increasing positions of the event-number columns
\* of the pages taken in page order
C16_SourceOrder ==
    /\ GenericDone =>
          /\ Len(tournaments) = Len(TextRowStarts)
          /\ \A k \in 1..Len(tournaments) : FromLine(k, TextRowStarts[k])
    /\ ColumnarDone =>
          /\ Len(pageSections) <= Len(PagesOfText(text))
          /\ FromColumn(tournaments, AllEventNumbers(pageSections), 1)

\* what the row pipeline keeps of that order: the data lines of step 2 are
\* lines of the text in the order of the text, and the k-th record comes
\* from the k-th row-start line among them
RowOrderOfDataLines ==
    GenericDone =>
        /\ IsSubsequence(dataLines, TrimmedText(text), 1)
        /\ Len(tournaments) = Len(RowStartLines)
        /\ \A k \in 1..Len(tournaments) :
              /\ rowFacts[k].firstLine = TabsToSpace(RowStartLines[k])
              /\ FromLine(k, RowStartLines[k])

\* the position of the first row-start line of a sequence of lines, one
\* past its end when it has none
FirstRowStart(lines) ==
    Bind({i \in 1..Len(lines) : ROW_START_RE(lines[i])}, LAMBDA starts :
        IF starts = {} THEN Len(lines) + 1
        ELSE CHOOSE i \in starts : \A j \in starts : i <= j)

\* a row opens with a row-start line and has no other
WellFormedRow(row) ==
    /\ Len(row) >= 1
    /\ ROW_START_RE(row[1])
    /\ \A j \in 2..Len(row) : ~ROW_START_RE(row[j])

\* rows partition lines from the first row-start line on
PartitionsFromFirstStart(rows, lines) ==
    /\ \A k \in 1..Len(rows) : WellFormedRow(rows[k])
    /\ Flatten(rows) = SubSeq(lines, FirstRowStart(lines), Len(lines))

\* C31: groupIntoRows partitions the data lines: a line starts a new row if
\* and only if it matches the row-start pattern, every other line is appended
\* to the row opened by the nearest preceding row-start line, lines before
\* the first row-start line are dropped, and the rows concatenated in order
\* equal the data lines from the first row-start line on; the rows handed to
\* parseRow are these rows
C31_RowsPartitionDataLines ==
    GenericDone =>
        Bind(groupIntoRows(dataLines), LAMBDA rows :
            /\ PartitionsFromFirstStart(rows, dataLines)
            /\ Len(rows) = Len(RowStartLines)
            /\ Len(rowFacts) = Len(rows)
            /\ \A k \in 1..Len(rows) : rowFacts[k].joined = Joined(rows[k]))

\* data lines with a line before the first row start, and a row of two lines
C31_Witness ==
    /\ GenericDone
    /\ FirstRowStart(dataLines) > 1
    /\ Len(rowFacts) >= 2
    /\ \E k \in 1..Len(groupIntoRows(dataLines)) : Len(groupIntoRows(dataLines)[k]) = 2

\* the word (lower case) follows position e - 1 of s, after optional spaces
FollowedBy(s, e, word) == MatchAtCI(s, RunEnd(s, e, SpaceSet), word)

\* a comma precedes position i of s, before optional spaces
PrecededByComma(s, i) ==
    \E c \in 1..(i - 1) : s[c] = "," /\ \A k \in (c + 1)..(i - 1) : IsSpace(s[k])

\* the amount is part of the name: followed by GUARANTEED, PER, REBUY or
\* GUARANTEE, or preceded by a comma
NameEmbedded(s, d) ==
    \/ FollowedBy(s, d.end, <<"g","u","a","r","a","n","t","e","e">>)
    \/ FollowedBy(s, d.end, <<"p","e","r"," ">>)
    \/ FollowedBy(s, d.end, <<"r","e","b","u","y">>)
    \/ PrecededByComma(s, d.index)

\* the amount is located after the end of the time token of the row: it
\* starts at or beyond the first position that follows the token
AfterTimeToken(f, d) ==
    f.timeStart = 0 \/ d.index >= TimeEnd(f.joined, f.timeStart)

\* the amounts of a row that the statement takes for column values
ColumnAmounts(f) ==
    SelectSeq(AllDollars(f.joined),
              LAMBDA d : AfterTimeToken(f, d) /\ ~NameEmbedded(f.joined, d))

\* the k-th value of a sequence of amounts, Null when it has fewer
AmountAt(amounts, k) == IF k <= Len(amounts) THEN <<amounts[k].value>> ELSE Null

\* C32: in a row the amounts taken as column values are exactly those
\* located after the end of the time token that are not name-embedded; the
\* first four of them, in order of position, become total entry, prize pool,
\* house fee and optional add-on
C32_ColumnAmounts ==
    GenericDone =>
        /\ \A k \in 1..Len(rowFacts) :
              Bind(ColumnAmounts(rowFacts[k]), LAMBDA amounts :
                  /\ rowFacts[k].dollars = amounts
                  /\ rowFacts[k].totalEntry =
                         IF Len(amounts) > 0 THEN amounts[1].value ELSE 0)
        /\ Len(parsedRows) = Len(rowFacts) =>
              \A k \in 1..Len(parsedRows) :
                  Bind(ColumnAmounts(rowFacts[k]), LAMBDA amounts :
                      /\ parsedRows[k].prizePool = AmountAt(amounts, 2)
                      /\ parsedRows[k].houseFee = AmountAt(amounts, 3)
                      /\ parsedRows[k].optAddOn = AmountAt(amounts, 4))

---------------------------------------------------------------------------
(* Specification of format detection: detectFormat on the extracted text   *)

\* the text as one string, its lines separated by newlines
RECURSIVE JoinNewline(_)
JoinNewline(ls) ==
    IF Len(ls) = 0 THEN <<>>
    ELSE IF Len(ls) = 1 THEN Head(ls)
    ELSE Head(ls) \o <<"\n">> \o JoinNewline(Tail(ls))

\* detectFormat with both the re-entry and the late-registration marker
\* required
detectFormat_BothMarkers(txt) ==
    Bind(JoinNewline(txt), LAMBDA pdfText :
        IF /\ Includes(pdfText, <<"E","V","#">>)
           /\ Includes(pdfText, <<"L","V","L">>)
           /\ Includes(pdfText, <<"R","E","-","E","N","T","R","Y">>)
           /\ Includes(pdfText, <<"L","A","T","E">>)
        THEN "wsop"
        ELSE "generic")

\* detectFormat(pdfText): both branches after the marker test return
\* 'generic'
detectFormat(txt) ==
    Bind(JoinNewline(txt), LAMBDA pdfText :
        IF /\ Includes(pdfText, <<"E","V","#">>)
           /\ Includes(pdfText, <<"L","V","L">>)
           /\ \/ Includes(pdfText, <<"R","E","-","E","N","T","R","Y">>)
              \/ Includes(pdfText, <<"L","A","T","E">>)
        THEN "wsop"
        ELSE IF ROW_START_RE(pdfText) THEN "generic"
        ELSE "generic")

\* lines with the markers, alone and together, in other spellings, inside
\* longer words, and a row-start line
DetectLines ==
    {<<"E","V","#">>,
     <<"L","V","L">>,
     <<"R","E","-","E","N","T","R","Y">>,
     <<"L","A","T","E">>,
     <<"E","V","#"," ","D","A","T","E"," ","T","I","M","E"," ","L","V","L">>,
     <<"e","v","#"," ","l","v","l"," ","r","e","-","e","n","t","r","y"," ","l","a","t","e">>,
     <<"E","V"," ","#">>,
     <<"R","E"," ","E","N","T","R","Y">>,
     <<"T","E","M","P","L","A","T","E">>,
     <<"M","O","N"," ","J","A","N"," ","5"," ","1","0","A","M"," ","N","L","H"," ","$","4","0","0">>}

MaxDetectLines == 3

\* texts of up to MaxDetectLines of those lines, and the texts given to the
\* two parsers
DetectTexts == SeqsUpTo(DetectLines, MaxDetectLines) \cup TextInputs \cup TableTexts

InitDetect ==
    /\ pc = "detect_call"
    /\ text \in DetectTexts
    /\ pageSections = <<>>
    /\ tournaments = <<>>
    /\ IdleRake /\ IdleClassify /\ IdleGeneric /\ IdleRepeat /\ IdleDetect /\ IdleServer

\* format = detectFormat(pdfText)
CallDetectFormat ==
    /\ pc = "detect_call"
    /\ format' = <<detectFormat(text)>>
    /\ pc' = "detect_done"
    /\ UNCHANGED <<text, pageSections, tournaments, genericVars, rakeVars, classifyVars, repeatVars, serverVars>>

NextDetect == CallDetectFormat

SpecDetect == InitDetect /\ [][NextDetect]_vars

DetectDone == pc = "detect_done"

\* some line of the text holds the marker
Occurs(marker) ==
    \E k \in 1..Len(text) : \E i \in 1..(Len(text[k]) - Len(marker) + 1) :
        SubSeq(text[k], i, i + Len(marker) - 1) = marker

\* C17: detectFormat returns a choice for every text, one of the two: the
\* columnar pipeline if and only if the text holds EV# and LVL and at least
\* one of RE-ENTRY and LATE, the row pipeline otherwise, with or without a
\* row-start line
C17_DetectFormat ==
    DetectDone =>
        /\ format \in {<<"wsop">>, <<"generic">>}
        /\ format = <<"wsop">> <=>
              /\ Occurs(<<"E","V","#">>)
              /\ Occurs(<<"L","V","L">>)
              /\ Occurs(<<"R","E","-","E","N","T","R","Y">>) \/ Occurs(<<"L","A","T","E">>)

\* the columnar pipeline chosen on LATE alone, for a text that also has a
\* row-start line
C17_Witness ==
    /\ DetectDone
    /\ format = <<"wsop">>
    /\ ~Occurs(<<"R","E","-","E","N","T","R","Y">>)
    /\ \E k \in 1..Len(text) : ROW_START_RE(text[k])

---------------------------------------------------------------------------
(* Claims about the unknown result of the rake engine                      *)

\* getWSOPRake as it runs over a tier table: the override, the exact tier,
\* the fallback
RakeOver(table, b, ev) ==
    IF ev # <<>> /\ ev \in DOMAIN WSOP_RAKE_OVERRIDES
    THEN RakeOf(b, WSOP_RAKE_OVERRIDES[ev])
    ELSE IF b \in DOMAIN table
    THEN RakeOf(b, table[b])
    ELSE RakeFallback(table, b)

\* tier tables: the shipped one, parts of it, the empty one
TierTables ==
    {[k \in K |-> WSOP_RAKE_BY_BUYIN[k]] : K \in (SUBSET {300, 600, 1000}) \cup {TierKeys}}

RakeFields == {"rakePct", "rakeDollars", "prizePool", "houseFee", "optAddOn"}

OverrideMatches == eventNumber # <<>> /\ eventNumber \in DOMAIN WSOP_RAKE_OVERRIDES

\* C18: getWSOPRake returns the unknown result, its five fields null
\* together, if and only if no tier can be resolved, which needs an empty
\* tier table and no matching override; with the shipped table every
\* buy-in resolves a tier and no field is null
C18_UnknownOnlyOnEmptyTable ==
    pc = "rake_done" =>
        /\ \A f \in RakeFields : rake[f] # Null
        /\ rake = RakeOver(WSOP_RAKE_BY_BUYIN, buyin, eventNumber)
        /\ \A table \in TierTables :
              Bind(RakeOver(table, buyin, eventNumber), LAMBDA r :
                  /\ r = NullRake <=> (DOMAIN table = {} /\ ~OverrideMatches)
                  /\ r # NullRake => \A f \in RakeFields : r[f] # Null)

\* a buy-in below every tier and no override: the loop resolves nothing and
\* the lowest tier is taken; over the empty table the result is unknown
C18_Witness ==
    /\ pc = "rake_done"
    /\ ~OverrideMatches
    /\ \A k \in TierKeys : buyin < k
    /\ rake.rakePct = Some(WSOP_RAKE_BY_BUYIN[300].totalPct)
    /\ RakeOver(<<>>, buyin, eventNumber) = NullRake

---------------------------------------------------------------------------
(* Claims about the linker                                                 *)

\* the k-th record had no parent after row parsing and is a restart
OpenRestart(k) == parsedRows[k].isRestart /\ parsedRows[k].parentEvent = Null

\* C19: linkRestartsToParents changes nothing but the parentEvent of restart
\* records that had none: the records parsed from the rows and the records
\* returned are as many, in the same order, equal in every other field, and
\* equal in all fields for every record that is not a restart (satellites
\* and their targetEvent included) or whose parentEvent row parsing had set
C19_LinkerFrame ==
    GenericDone =>
        /\ Len(tournaments) = Len(parsedRows)
        /\ \A k \in 1..Len(parsedRows) :
              /\ [tournaments[k] EXCEPT !.parentEvent = parsedRows[k].parentEvent]
                    = parsedRows[k]
              /\ ~OpenRestart(k) => tournaments[k] = parsedRows[k]

\* a restart that row parsing left without a parent gets one from the
\* linker, next to a record the linker leaves alone
C19_Witness ==
    /\ GenericDone
    /\ Len(parsedRows) = 2
    /\ \E k \in 1..2 :
          /\ OpenRestart(k)
          /\ tournaments[k].parentEvent # Null
          /\ tournaments[3 - k] = parsedRows[3 - k]

\* the number of lines that start a row
RowStartCount(lines) == Cardinality({i \in 1..Len(lines) : ROW_START_RE(lines[i])})

\* C36: no grouped row is discarded: parseRow finds the date in every row of
\* groupIntoRows and returns a record for it, so parseGenericSchedule returns
\* as many records as the retained data lines hold row-start lines
C36_NoRowDiscarded ==
    GenericDone =>
        /\ \A k \in 1..Len(rowFacts) : rowFacts[k].dateStart # 0
        /\ Len(parsedRows) = Len(rowFacts)
        /\ Len(tournaments) = RowStartCount(dataLines)

\* two records from four data lines: a line before the first row start and
\* a continuation line, and a row without a time token
C36_Witness ==
    /\ GenericDone
    /\ Len(tournaments) = 2
    /\ Len(dataLines) >= 3
    /\ \E k \in 1..Len(rowFacts) : rowFacts[k].timeStart = 0

\* an event number without its trailing flight letter
StripFlight(evNum) ==
    IF evNum # <<>> /\ evNum[Len(evNum)] \in
           {"A", "B", "C", "D", "E", "F", "G", "a", "b", "c", "d", "e", "f", "g"}
    THEN SubSeq(evNum, 1, Len(evNum) - 1)
    ELSE evNum

\* the base numbers of the records returned that are no restarts
PrimaryBases ==
    {StripFlight(tournaments[j].eventNumber) :
        j \in {i \in 1..Len(tournaments) :
                  tournaments[i].eventNumber # <<>> /\ ~tournaments[i].isRestart}}

\* the base numbers the name of the k-th record refers to as "EVENT <n> "
ReferencedBases(k) ==
    {n \in PrimaryBases : Includes(tournaments[k].eventName, <<"E","V","E","N","T"," ">> \o n \o <<" ">>)}

---------------------------------------------------------------------------
(* Claims about the text after the first semicolon of an event name        *)

HasSemicolon(name) == IndexOfChar(name, ";") >= 0

\* the text of a name before its first semicolon
BeforeSemicolon(name) == Substring0(name, IndexOfChar(name, ";"))

\* the names of the check that are equal to the classified one up to their
\* first semicolon
SameUpToSemicolon ==
    {other \in NameInputs :
        /\ HasSemicolon(other)
        /\ BeforeSemicolon(other) = BeforeSemicolon(eventName)}

\* C20: the text after the first semicolon of an event name never
\* influences classification: two event names that are equal up to their
\* first semicolon get the same label from classifyGameVariant, wherever
\* the semicolon stands, the very start of the name included
C20_TailIgnored ==
    (pc = "classify_done" /\ HasSemicolon(eventName)) =>
        \A other \in SameUpToSemicolon : classifyGameVariant(other) = gameVariant

---------------------------------------------------------------------------
(* The server: share requests and the schedule of another user.  A table   *)
(* is the set of its rows; the handlers below run their statements without *)
(* an await in between, so each is one step.                               *)

Users == {1, 2, 10}

\* the user a username resolves to in SELECT id FROM users WHERE username = ?
\* (0: no such user)
UsernameTargets == Users \cup {0}

MaxShareId == 3

ShareRow(id, from, to, status) ==
    [id |-> id, from_user_id |-> from, to_user_id |-> to, status |-> status]

\* the response to a request: the handler, the caller, the parameter, the
\* HTTP status and the body
Response(op, user, arg, status, body) ==
    [op |-> op, user |-> user, arg |-> arg, status |-> status, body |-> body]

NoResponse == Response("none", 0, 0, 0, {})

\* WHERE (from_user_id = a AND to_user_id = b) OR (from_user_id = b AND
\* to_user_id = a)
Between(rows, a, b) ==
    {r \in rows : \/ r.from_user_id = a /\ r.to_user_id = b
                  \/ r.from_user_id = b /\ r.to_user_id = a}

Accepted(rows) == {r \in rows : r.status = "accepted"}

Pending(rows) == {r \in rows : r.status = "pending"}

\* the rows of tournaments joined with the user_schedules rows of a user, as
\* the set of their ids (the response lists them ordered by date and time)
ScheduleOf(userId) ==
    {t.id : t \in {row \in tournamentRows :
                      \E us \in userSchedules :
                          us.user_id = userId /\ us.tournament_id = row.id}}

\* POST /api/share-request
PostShareRequest(u, target) ==
    /\ pc = "serving"
    /\ IF target = 0
       THEN /\ response' = Response("share_request", u, target, 404, {})
            /\ UNCHANGED shareVars
       ELSE IF target = u
       THEN /\ response' = Response("share_request", u, target, 400, {})
            /\ UNCHANGED shareVars
       ELSE IF Between(shareRequests, u, target) # {}
       THEN /\ response' = Response("share_request", u, target, 400, {})
            /\ UNCHANGED shareVars
       ELSE /\ nextShareId <= MaxShareId
            /\ shareRequests' = shareRequests \cup {ShareRow(nextShareId, u, target, "pending")}
            /\ nextShareId' = nextShareId + 1
            /\ response' = Response("share_request", u, target, 200, {})
    /\ UNCHANGED <<pc, parserVars, saveVars, scanVars, scheduleVars, shareTokens>>

\* the accept handler whose SELECT leaves out the test of the recipient
PutShareRequestAccept_AnyUser(u, id) ==
    /\ pc = "serving"
    /\ IF \E r \in shareRequests : r.id = id /\ r.status = "pending"
       THEN /\ shareRequests' =
                  {IF r.id = id THEN [r EXCEPT !.status = "accepted"] ELSE r : r \in shareRequests}
            /\ response' = Response("accept", u, id, 200, {})
       ELSE /\ response' = Response("accept", u, id, 404, {})
            /\ UNCHANGED shareRequests
    /\ UNCHANGED <<pc, parserVars, saveVars, scanVars, scheduleVars, nextShareId, shareTokens>>

\* PUT /api/share-request/:id/accept
PutShareRequestAccept(u, id) ==
    /\ pc = "serving"
    /\ IF \E r \in shareRequests : r.id = id /\ r.to_user_id = u /\ r.status = "pending"
       THEN /\ shareRequests' =
                  {IF r.id = id THEN [r EXCEPT !.status = "accepted"] ELSE r : r \in shareRequests}
            /\ response' = Response("accept", u, id, 200, {})
       ELSE /\ response' = Response("accept", u, id, 404, {})
            /\ UNCHANGED shareRequests
    /\ UNCHANGED <<pc, parserVars, saveVars, scanVars, scheduleVars, nextShareId, shareTokens>>

\* PUT /api/share-request/:id/reject
PutShareRequestReject(u, id) ==
    /\ pc = "serving"
    /\ shareRequests' =
          {r \in shareRequests : ~(r.id = id /\ r.to_user_id = u /\ r.status = "pending")}
    /\ response' = Response("reject", u, id, 200, {})
    /\ UNCHANGED <<pc, parserVars, saveVars, scanVars, scheduleVars, nextShareId, shareTokens>>

\* DELETE /api/share-request/:id
DeleteShareRequest(u, id) ==
    /\ pc = "serving"
    /\ shareRequests' =
          {r \in shareRequests : ~(r.id = id /\ r.from_user_id = u /\ r.status = "pending")}
    /\ response' = Response("cancel", u, id, 200, {})
    /\ UNCHANGED <<pc, parserVars, saveVars, scanVars, scheduleVars, nextShareId, shareTokens>>

\* DELETE /api/share-buddy/:userId
DeleteShareBuddy(u, other) ==
    /\ pc = "serving"
    /\ shareRequests' = shareRequests \ Accepted(Between(shareRequests, u, other))
    /\ response' = Response("remove_buddy", u, other, 200, {})
    /\ UNCHANGED <<pc, parserVars, saveVars, scanVars, scheduleVars, nextShareId, shareTokens>>

\* parseInt(s) for a string with no leading white space or sign: the number
\* its leading digits spell, NaN when it starts with no digit
parseInt(s) ==
    Bind(RunEnd(s, 1, DigitSet), LAMBDA e :
        IF e = 1 THEN NaN ELSE ParseDigits(SubSeq(s, 1, e - 1)))

\* the integer a bound string is compared as against an INTEGER column
\* (SQLite applies numeric affinity to the string): the value of a
\* well-formed literal, digits with an optional exponent, when that value
\* is an integer; Null for any other string, which equals no integer
SqlInteger(s) ==
    Bind(RunEnd(s, 1, DigitSet), LAMBDA e :
        IF e = 1 THEN Null
        ELSE IF e = Len(s) + 1 THEN Some(ParseDigits(s))
        ELSE IF s[e] # "e" THEN Null
        ELSE Bind(IF e < Len(s) /\ s[e + 1] = "-" THEN e + 2 ELSE e + 1, LAMBDA x :
             IF x > Len(s) \/ RunEnd(s, x, DigitSet) # Len(s) + 1 THEN Null
             ELSE Bind(ParseDigits(SubSeq(s, 1, e - 1)), LAMBDA m :
                  Bind(10 ^ ParseDigits(SubSeq(s, x, Len(s))), LAMBDA p :
                       IF x = e + 1 THEN Some(m * p)
                       ELSE IF m % p = 0 THEN Some(m \div p)
                       ELSE Null))))

\* GET /api/schedule/:userId, userId being the string of the path
GetScheduleOfUser(u, userId) ==
    /\ pc = "serving"
    /\ \E bound \in {SqlInteger(userId)} :
          IF /\ parseInt(userId) # u
             /\ \/ bound = Null
                \/ Accepted(Between(shareRequests, bound[1], u)) = {}
          THEN response' = Response("get_schedule", u, userId, 403, {})
          ELSE response' = Response("get_schedule", u, userId, 200,
                                    IF bound = Null THEN {} ELSE ScheduleOf(bound[1]))
    /\ UNCHANGED <<pc, parserVars, saveVars, scanVars, scheduleVars, shareVars>>

\* a row of share_tokens
TokenRow(u, token) == [user_id |-> u, token |-> token]

\* SELECT token FROM share_tokens WHERE user_id = u
TokensOfUser(u) == {r.token : r \in {x \in shareTokens : x.user_id = u}}

\* the handler that replaces the token of a user who has one
PostShareToken_Regenerate(u, token) ==
    /\ pc = "serving"
    /\ IF \E r \in shareTokens : r.token = token /\ r.user_id # u
       THEN /\ response' = Response("generate", u, 0, 500, {})
            /\ UNCHANGED shareTokens
       ELSE /\ shareTokens' =
                  {r \in shareTokens : r.user_id # u} \cup {TokenRow(u, token)}
            /\ response' = Response("generate", u, 0, 200, {token})
    /\ UNCHANGED <<pc, parserVars, saveVars, scanVars, scheduleVars, shareRequests, nextShareId>>

\* POST /api/share-token, token being the value crypto.randomBytes(16)
\* yields: the token of the user when there is one; else the INSERT, which
\* UNIQUE(token) refuses when the value is the token of another user
PostShareToken(u, token) ==
    /\ pc = "serving"
    /\ IF TokensOfUser(u) # {}
       THEN /\ response' = Response("generate", u, 0, 200, TokensOfUser(u))
            /\ UNCHANGED shareTokens
       ELSE IF \E r \in shareTokens : r.token = token
       THEN /\ response' = Response("generate", u, 0, 500, {})
            /\ UNCHANGED shareTokens
       ELSE /\ shareTokens' = shareTokens \cup {TokenRow(u, token)}
            /\ response' = Response("generate", u, 0, 200, {token})
    /\ UNCHANGED <<pc, parserVars, saveVars, scanVars, scheduleVars, shareRequests, nextShareId>>

\* DELETE /api/share-token
DeleteShareToken(u) ==
    /\ pc = "serving"
    /\ shareTokens' = {r \in shareTokens : r.user_id # u}
    /\ response' = Response("revoke", u, 0, 200, {})
    /\ UNCHANGED <<pc, parserVars, saveVars, scanVars, scheduleVars, shareRequests, nextShareId>>

\* GET /api/share-token
GetShareToken(u) ==
    /\ pc = "serving"
    /\ response' = Response("get_token", u, 0, 200, TokensOfUser(u))
    /\ UNCHANGED <<pc, parserVars, saveVars, scanVars, scheduleVars, shareVars>>

\* GET /api/shared/:token, without authentication (user 0): the schedule of
\* the user of the row with that token, 404 when there is no such row
GetShared(token) ==
    /\ pc = "serving"
    /\ IF \E r \in shareTokens : r.token = token
       THEN response' = Response("shared", 0, token, 200,
                ScheduleOf((CHOOSE r \in shareTokens : r.token = token).user_id))
       ELSE response' = Response("shared", 0, token, 404, {})
    /\ UNCHANGED <<pc, parserVars, saveVars, scanVars, scheduleVars, shareVars>>

---------------------------------------------------------------------------
(* Specification of sharing                                                *)

\* a tournament row, by the columns the handlers below read and write
TournamentRow(id, venue, name, date, amount, notes, by) ==
    [id |-> id, venue |-> venue, event_name |-> name, date |-> date,
     buyin |-> amount, notes |-> notes, uploaded_by |-> by]

ScheduleRow(u, tid) == [user_id |-> u, tournament_id |-> tid]

\* two uploaded tournaments
UploadedRows ==
    {TournamentRow(1, <<"W","S","O","P"," ","L","a","s"," ","V","e","g","a","s">>, <<"N","L","H">>, <<"M","a","y"," ","2","7",","," ","2","0","2","6">>, 500, Null, 1),
     TournamentRow(2, <<"W","S","O","P"," ","L","a","s"," ","V","e","g","a","s">>, <<"P","L","O">>, <<"M","a","y"," ","2","8",","," ","2","0","2","6">>, 1500, Null, 1)}

\* share_requests after initDatabase: empty, or the rows the migration of
\* schedule_permissions inserted as accepted
MigratedShares ==
    {{},
     {ShareRow(1, 1, 2, "accepted")},
     {ShareRow(1, 1, 2, "accepted"), ShareRow(2, 2, 1, "accepted")}}

\* schedules at the start
InitialSchedules ==
    {{ScheduleRow(1, 1), ScheduleRow(2, 2)},
     {ScheduleRow(1, 1), ScheduleRow(1, 2), ScheduleRow(2, 1), ScheduleRow(10, 2)}}

InitShare ==
    /\ pc = "serving"
    /\ shareRequests \in MigratedShares
    /\ nextShareId = Cardinality(shareRequests) + 1
    /\ shareTokens = {}
    /\ userSchedules \in InitialSchedules
    /\ scheduleConditions = {}
    /\ nextConditionId = 1
    /\ tournamentRows = UploadedRows
    /\ nextTournamentId = 3
    /\ response = NoResponse
    /\ IdleParsers /\ IdleSave /\ IdleScan

ShareIds == 1..MaxShareId

\* the userId of the path: the decimal of a user id, other spellings of a
\* number, and strings that spell none
UserIdParams ==
    {<<"1">>, <<"2">>, <<"1","0">>, <<"1","e","1">>, <<"1","0","e","-","1">>,
     <<"2","x">>, <<"x">>}

NextShare ==
    \/ \E u \in Users : \E target \in UsernameTargets : PostShareRequest(u, target)
    \/ \E u \in Users : \E id \in ShareIds : PutShareRequestAccept(u, id)
    \/ \E u \in Users : \E id \in ShareIds : PutShareRequestReject(u, id)
    \/ \E u \in Users : \E id \in ShareIds : DeleteShareRequest(u, id)
    \/ \E u \in Users : \E other \in Users : DeleteShareBuddy(u, other)
    \/ \E u \in Users : \E userId \in UserIdParams : GetScheduleOfUser(u, userId)

SpecShare == InitShare /\ [][NextShare]_vars

---------------------------------------------------------------------------
(* Specification of the share links: three users generate, read and revoke *)
(* their tokens and anyone opens a link                                    *)

\* the values crypto.randomBytes(16).toString('hex') yields
TokenValues == {"0a1f", "7c3e", "e5b9"}

\* the tokens of the path of a link: the values above and one never issued
TokenParams == TokenValues \cup {"ffff"}

InitToken ==
    /\ pc = "serving"
    /\ shareRequests = {}
    /\ nextShareId = 1
    /\ shareTokens = {}
    /\ userSchedules \in InitialSchedules
    /\ scheduleConditions = {}
    /\ nextConditionId = 1
    /\ tournamentRows = UploadedRows
    /\ nextTournamentId = 3
    /\ response = NoResponse
    /\ IdleParsers /\ IdleSave /\ IdleScan

NextToken ==
    \/ \E u \in Users : \E token \in TokenValues : PostShareToken(u, token)
    \/ \E u \in Users : DeleteShareToken(u)
    \/ \E u \in Users : GetShareToken(u)
    \/ \E token \in TokenParams : GetShared(token)

SpecToken == InitToken /\ [][NextToken]_vars

---------------------------------------------------------------------------
(* The upload handler: POST /api/upload-schedule                           *)

\* v || d
OrElse(v, d) == IF v = Null THEN d ELSE v

\* the field of a record, undefined when the parser did not set it
FieldOf(t, name) == IF name \in DOMAIN t THEN t[name] ELSE Null

\* the row inserted for the record t of the list (lines 558-588)
InsertedRow(id, t, u) ==
    TournamentRow(id,
                  OrElse(t.venue, <<"H","o","r","s","e","s","h","o","e"," ","/"," ","P","a","r","i","s"," ","L","a","s"," ","V","e","g","a","s">>),
                  OrElse(t.eventName, <<"U","n","k","n","o","w","n"," ","E","v","e","n","t">>),
                  t.date, t.buyin, FieldOf(t, "notes"), u)

\* tournaments.slice(0, 5)
PreviewOf(list) == SubSeq(list, 1, IF Len(list) < 5 THEN Len(list) ELSE 5)

\* the handler always running the row pipeline
UploadParse_AlwaysGeneric(fmt, txt, venue, year) ==
    parseGenericSchedule(txt, venue, year)

\* the list the handler gets from the pipeline it runs
UploadParse(fmt, txt, venue, year) ==
    IF fmt = "wsop" THEN parseWSOP2025Schedule(txt, Year2026)
    ELSE parseGenericSchedule(txt, venue, year)

\* the handler; extracted is whether reading the file and extracting its
\* text succeeded (a failure there throws before anything is parsed)
PostUploadSchedule(u, extracted) ==
    /\ pc = "upload_call"
    /\ pc' = "upload_done"
    /\ IF ~extracted
       THEN /\ response' = Response("upload", u, 0, 500, {})
            /\ UNCHANGED <<format, tournaments, tournamentRows, nextTournamentId>>
       ELSE \E fmt \in {detectFormat(text)} :
            \E list \in {UploadParse(fmt, text, venueOption, currentYear)} :
               /\ format' = Some(fmt)
               /\ tournaments' = list
               /\ tournamentRows' = tournamentRows \cup
                     {InsertedRow(nextTournamentId + k - 1, list[k], u) : k \in 1..Len(list)}
               /\ nextTournamentId' = nextTournamentId + Len(list)
               /\ response' = Response("upload", u, 0, 200,
                                       [format |-> fmt,
                                        tournamentsCount |-> Len(list),
                                        tournaments |-> PreviewOf(list)])
    /\ UNCHANGED <<text, pageSections, venueOption, currentYear, rowFacts, dataLines,
                   parsedRows, rakeVars, classifyVars, repeatVars, shareVars,
                   userSchedules, scheduleConditions, nextConditionId, saveVars, scanVars>>

\* a table of six rows
LongTable ==
    <<<<"M","O","N"," ","J","A","N"," ","5"," ","1","0","A","M"," ","N","L","H"," ","$","4","0","0"," ","$","3","4","0"," ","2","0","K"," ","2","0">>,
      <<"T","U","E","S"," ","J","A","N"," ","6"," ","1","2","P","M"," ","P","L","O"," ","$","6","0","0"," ","$","5","0","5"," ","2","0","K"," ","2","0">>,
      <<"W","E","D"," ","J","A","N"," ","7"," ","1","1","A","M"," ","N","L","H"," ","T","U","R","B","O"," ","$","2","0","0"," ","$","1","7","0"," ","1","5","K"," ","2","0">>,
      <<"T","H","U","R","S"," ","J","A","N"," ","8"," ","1","0","A","M"," ","M","E","G","A"," ","S","A","T","E","L","L","I","T","E"," ","$","2","5","0"," ","$","2","1","5"," ","1","0","K"," ","2","0">>,
      <<"F","R","I"," ","J","A","N"," ","9"," ","6","P","M"," ","N","L","H"," ","B","O","U","N","T","Y"," ","$","4","0","0"," ","$","3","4","0"," ","2","0","K"," ","3","0">>,
      <<"S","A","T"," ","J","A","N"," ","1","0"," ","1","2","P","M"," ","M","A","I","N"," ","E","V","E","N","T"," ","$","1",",","1","0","0"," ","$","1",",","0","0","0"," ","3","0","K"," ","4","0">>,
      FooterLine>>

\* one-page columnar texts of MaxRows table rows and as many event numbers
UploadPages ==
    {PageOf(rows, MaxRows, names, FALSE) :
        rows \in [1..MaxRows -> BuyinLines], names \in NameColumns}

\* those pages, the two-page columnar texts, the tables of the row
\* pipeline and the six-row table
UploadTexts ==
    UploadPages
    \cup {p \o <<PageMarker>> \o q : p \in SecondPages, q \in SecondPages}
    \cup TableTexts \cup UntitledTexts \cup {LongTable}

InitUpload ==
    /\ pc = "upload_call"
    /\ text \in UploadTexts
    /\ venueOption \in VenueOptions
    /\ currentYear = Year2026
    /\ tournamentRows = UploadedRows
    /\ nextTournamentId = 3
    /\ pageSections = <<>> /\ tournaments = <<>>
    /\ rowFacts = <<>> /\ dataLines = <<>> /\ parsedRows = <<>>
    /\ userSchedules = {} /\ scheduleConditions = {} /\ nextConditionId = 1
    /\ response = NoResponse
    /\ IdleRake /\ IdleClassify /\ IdleRepeat /\ IdleDetect /\ IdleShare
    /\ IdleSave /\ IdleScan

NextUpload == \E u \in Users : \E extracted \in BOOLEAN : PostUploadSchedule(u, extracted)

SpecUpload == InitUpload /\ [][NextUpload]_vars

\* the rows the upload inserted
NewRows == {r \in tournamentRows : r.id >= nextTournamentId - Len(tournaments)}

\* C22: on a successful upload the handler has run exactly the pipeline
\* detectFormat chose, has inserted every record of the returned list,
\* reports tournamentsCount equal to the length of the list and returns as
\* preview its first min(5, count) records in parser order
C22_UploadOutcome ==
    (pc = "upload_done" /\ response.status = 200) =>
        /\ format = Some(detectFormat(text))
        /\ response.body.format = format[1]
        /\ tournaments = (IF format = Some("wsop")
                          THEN parseWSOP2025Schedule(text, Year2026)
                          ELSE parseGenericSchedule(text, venueOption, currentYear))
        /\ Cardinality(NewRows) = Len(tournaments)
        /\ \A k \in 1..Len(tournaments) :
              \E r \in NewRows :
                 /\ r.id = nextTournamentId - Len(tournaments) + k - 1
                 /\ r.date = tournaments[k].date
                 /\ r.buyin = tournaments[k].buyin
                 /\ r.uploaded_by = response.user
                 /\ tournaments[k].eventName # Null => r.event_name = tournaments[k].eventName
        /\ response.body.tournamentsCount = Len(tournaments)
        /\ Len(response.body.tournaments) =
              (IF Len(tournaments) < 5 THEN Len(tournaments) ELSE 5)
        /\ \A k \in 1..Len(response.body.tournaments) :
              response.body.tournaments[k] = tournaments[k]

\* an upload of more than five records through the row pipeline
C22_Witness ==
    /\ pc = "upload_done" /\ response.status = 200
    /\ format = Some("generic")
    /\ response.body.tournamentsCount = 6
    /\ Len(response.body.tournaments) = 5

---------------------------------------------------------------------------
(* Claims about sharing, checked under SpecShare                           *)

\* an accepted share request exists between the users a and b
Buddies(a, b) == Accepted(Between(shareRequests, a, b)) # {}

\* C21: a request by user A for the schedule of another user B returns the
\* schedule of B only if an accepted share request exists between A and B
\* at that time, in either direction, and is refused with 403 otherwise;
\* users always get their own schedule; once the buddy link is removed the
\* request is refused again.  B is the user whose user_schedules rows the
\* userId of the path selects.
C21_ScheduleAccess ==
    response.op = "get_schedule" =>
        Bind(SqlInteger(response.arg), LAMBDA b :
            /\ response.status \in {200, 403}
            /\ (b # Null /\ b[1] \in Users) =>
                  /\ response.status = 200 <=>
                        (b[1] = response.user \/ Buddies(response.user, b[1]))
                  /\ response.status = 200 => response.body = ScheduleOf(b[1])
            /\ response.status = 403 => response.body = {})

\* the row of a table with the given id
RowsWithId(rows, id) == {r \in rows : r.id = id}

\* C27: a share request goes from pending to accepted only through an
\* accept by its recipient while it is pending; the sender and third users
\* cannot accept it; an accepted request never returns to pending; reject
\* removes only a pending request addressed to the caller and cancel only a
\* pending request sent by the caller
C27_ShareRequestLifecycle ==
    [][/\ \A r \in shareRequests : \A q \in RowsWithId(shareRequests', r.id) :
             /\ q.from_user_id = r.from_user_id /\ q.to_user_id = r.to_user_id
             /\ r.status = "accepted" => q.status = "accepted"
             /\ (r.status = "pending" /\ q.status = "accepted") =>
                   response' = Response("accept", r.to_user_id, r.id, 200, {})
       /\ \A q \in shareRequests' :
             RowsWithId(shareRequests, q.id) = {} => q.status = "pending"
       /\ response'.op = "accept" =>
             /\ response'.status = 200 <=>
                   \E r \in Pending(shareRequests) :
                       r.id = response'.arg /\ r.to_user_id = response'.user
             /\ \A r \in shareRequests :
                   r.id # response'.arg => r \in shareRequests'
       /\ response'.op = "reject" =>
             shareRequests \ shareRequests' =
                {r \in Pending(shareRequests) :
                    r.id = response'.arg /\ r.to_user_id = response'.user}
       /\ response'.op = "cancel" =>
             shareRequests \ shareRequests' =
                {r \in Pending(shareRequests) :
                    r.id = response'.arg /\ r.from_user_id = response'.user}
      ]_vars

\* a request sent by user 1 to user 2 was accepted by user 2
C27_Witness ==
    /\ response.op = "accept" /\ response.status = 200 /\ response.user = 2
    /\ ShareRow(response.arg, 1, 2, "accepted") \in shareRequests
    /\ nextShareId = 2

\* the share requests between two users, in either direction
RequestsOfPair(u, v) ==
    {r \in shareRequests :
        \/ r.from_user_id = u /\ r.to_user_id = v
        \/ r.from_user_id = v /\ r.to_user_id = u}

\* C38: after a sequence of send, accept, reject, cancel and remove-buddy
\* operations at most one share request, pending or accepted, exists between
\* two users, and no share request goes from a user to themself
C38_OneRequestPerPair ==
    response # NoResponse =>
        /\ \A u, v \in Users : Cardinality(RequestsOfPair(u, v)) <= 1
        /\ \A r \in shareRequests : r.from_user_id # r.to_user_id

\* the tokens of the rows of share_tokens
IssuedTokens(rows) == {r.token : r \in rows}

\* C39: each user has at most one share token; generating a token when one
\* exists returns the existing token and changes no row; revoking removes
\* the row of the user, a link answers 200 with the schedule of the owner
\* only for a token of a row and 404 with no schedule for any other, and
\* only generating adds a row: so the link of a revoked token answers 404
\* until a token is generated again
C39_ShareTokenLifecycle ==
    [][/\ \A u \in Users : Cardinality({r \in shareTokens' : r.user_id = u}) <= 1
       /\ (response'.op = "generate" /\ TokensOfUser(response'.user) # {}) =>
              /\ shareTokens' = shareTokens
              /\ response'.status = 200
              /\ response'.body = TokensOfUser(response'.user)
       /\ response'.op = "revoke" =>
              /\ response'.status = 200
              /\ TokensOfUser(response'.user) \cap IssuedTokens(shareTokens') = {}
              /\ shareTokens' \subseteq shareTokens
       /\ response'.op = "shared" =>
              IF response'.arg \in IssuedTokens(shareTokens)
              THEN response'.status = 200
              ELSE response'.status = 404 /\ response'.body = {}
       /\ (response'.op # "generate") =>
              IssuedTokens(shareTokens') \subseteq IssuedTokens(shareTokens)]_vars

\* a user has revoked their token while another user keeps theirs
C39_Witness ==
    /\ response.op = "revoke"
    /\ TokensOfUser(response.user) = {}
    /\ shareTokens # {}

---------------------------------------------------------------------------
(* Specification of the section scan: the loop of findSections, one line   *)
(* of the page per step                                                    *)

\* header lines, page-number and banner lines, and lines of each column
ScanLineInputs ==
    {<<"D","A","T","E"," ","E","V","E","N","T"," ","N","A","M","E">>, <<"D","A","Y">>, <<"T","I","M","E">>, <<"B","U","Y","-","I","N">>, <<"S","T","A","R","T","I","N","G">>, <<"C","H","I","P","S">>, <<"L","V","L">>,
     <<"D","U","R","A","T","I","O","N">>, <<"(","M","I","N","U","T","E","S",")">>, <<"R","E","-","E","N","T","R","Y">>, <<"L","A","T","E">>, <<"R","E","G",".">>, <<"E","V","#">>,
     <<"1","/","1","0">>, <<"W","O","H","L","D"," ","S","E","R","I","E","S">>,
     <<"M","a","y"," ","2","7">>, <<"W","e","d","n","e","s","d","a","y">>, <<"1","2"," ","P","M">>, <<"$","5","0","0">>, <<"-">>, <<"4","0",",","0","0","0">>, <<"3","0","/","6","0">>,
     <<"U","n","l","i","m","i","t","e","d">>, <<"6"," ","l","e","v","e","l","s">>, <<"5","8">>,
     <<"N","o","-","L","i","m","i","t"," ","H","o","l","d","'","e","m">>, <<"C","h","a","m","p","i","o","n","s","h","i","p">>, <<"M","i","x","e","d",":"," ","R","a","z","z",";"," ","B","a","d","u","g","i">>,
     <<"M","i","x","e","d",":"," ","R","a","z","z",";"," ","B","a","d","u","g","i"," ","(","3","-","d","a","y"," ","e","v","e","n","t",")">>}

MaxScanLines == 4

InitScan ==
    /\ pc = "scan_loop"
    /\ scan = InitialScan
    /\ scanLine = <<>>
    /\ scanPos = 0
    /\ IdleRake /\ IdleClassify /\ IdleColumnar /\ IdleGeneric /\ IdleRepeat
    /\ IdleDetect /\ IdleShare /\ IdleSchedule /\ response = <<>> /\ IdleSave

\* one iteration of the loop, on the next line of the page
ReadLine(line) ==
    /\ pc = "scan_loop"
    /\ scanPos < MaxScanLines
    /\ scan' = SectionStep(scan, line)
    /\ scanLine' = line
    /\ scanPos' = scanPos + 1
    /\ UNCHANGED <<pc, rakeVars, classifyVars, columnarVars, genericVars, repeatVars,
                   format, shareVars, scheduleVars, response, saveVars>>

\* the end of the page: the buffer is flushed and the names are filtered
EndOfLines ==
    /\ pc = "scan_loop"
    /\ pc' = "scan_done"
    /\ pageSections' = <<FinishScan(scan)>>
    /\ UNCHANGED <<text, tournaments, rakeVars, classifyVars, genericVars, repeatVars,
                   format, shareVars, scheduleVars, response, saveVars, scanVars>>

NextScan == (\E line \in ScanLineInputs : ReadLine(line)) \/ EndOfLines

SpecScan == InitScan /\ [][NextScan]_vars

---------------------------------------------------------------------------
(* Claims about the section state machine                                  *)

\* the step of the loop that has just processed scanLine
LineRead == scanPos' = scanPos + 1

\* the column a trigger line activates, "" for a line that is no trigger
TriggerColumn(line) ==
    IF Includes(line, <<"E","V","E","N","T"," ","N","A","M","E">>) /\ Includes(line, <<"D","A","T","E">>) THEN "dates"
    ELSE IF line = <<"T","I","M","E">> THEN "times"
    ELSE IF line = <<"B","U","Y","-","I","N">> THEN "buyins"
    ELSE IF line = <<"S","T","A","R","T","I","N","G">> THEN "chips"
    ELSE IF line = <<"L","V","L">> THEN "durations"
    ELSE IF line = <<"R","E","-","E","N","T","R","Y">> THEN "reentries"
    ELSE IF line = <<"L","A","T","E">> THEN "lateRegs"
    ELSE IF line = <<"E","V","#">> THEN "eventNumbers"
    ELSE ""

\* the header lines that belong to the column already active
ContinuationHeaders == {<<"C","H","I","P","S">>, <<"D","U","R","A","T","I","O","N">>, <<"(","M","I","N","U","T","E","S",")">>, <<"R","E","G",".">>}

\* the lines that are skipped whatever the column: page numbers and banners
SkippedLines(line) == RePageNumber(line) \/ line \in {<<"W","O","H","L","D"," ","S","E","R","I","E","S">>, <<"P","D","i","<","E","R">>}

\* the change of column on a line that is neither a trigger nor a skipped
\* line: only from late-reg to event-names, on a line that is no late-reg value
DataLineRule(before, after, line) ==
    IF before = "lateRegs" /\ ~LateRegAccepted(line)
    THEN after = "eventNames"
    ELSE after = before

\* C23 as stated: the active column changes only on the trigger lines DATE
\* EVENT NAME, TIME, BUY-IN, STARTING, LVL, RE-ENTRY, LATE and EV#, each
\* activating its column from any state; CHIPS, DURATION, (MINUTES) and REG.
\* never change it; every other line changes it only from late-reg to
\* event-names, when the line is not a late-reg value
C23_ListedTriggersOnly ==
    [][LineRead =>
          IF TriggerColumn(scanLine') # ""
          THEN scan'.section = TriggerColumn(scanLine')
          ELSE IF scanLine' \in ContinuationHeaders
          THEN scan'.section = scan.section
          ELSE DataLineRule(scan.section, scan'.section, scanLine')]_vars

\* C23 as the code has it: the listed trigger lines activate their columns
\* from any state, and the line DAY activates a days column whose lines are
\* discarded; CHIPS, DURATION, (MINUTES), REG., page-number lines and the
\* banner lines never change the active column; every other line changes it
\* only from late-reg to event-names, when the line is not a late-reg value
C23_SectionTransitions ==
    [][LineRead =>
          IF TriggerColumn(scanLine') # ""
          THEN scan'.section = TriggerColumn(scanLine')
          ELSE IF scanLine' = <<"D","A","Y">>
          THEN scan'.section = "days"
          ELSE IF scanLine' \in ContinuationHeaders \/ SkippedLines(scanLine')
          THEN scan'.section = scan.section
          ELSE DataLineRule(scan.section, scan'.section, scanLine')]_vars

\* event-names was entered from late-reg after a late-reg value was collected
C23_Witness ==
    /\ scan.section = "eventNames"
    /\ Len(scan.result.lateRegs) > 0
    /\ scanLine = <<"C","h","a","m","p","i","o","n","s","h","i","p">>

\* the value streams of a page: every stream but the event names, which are
\* collected through the buffer
ValueStreams ==
    {"dates", "times", "allBuyins", "chips", "durations", "reentries", "lateRegs",
     "eventNumbers"}

\* the stream of a column, "" for a column that has none
StreamOf(section) ==
    IF section = "buyins" THEN "allBuyins"
    ELSE IF section \in ValueStreams THEN section
    ELSE ""

\* the acceptance pattern of each value stream
Accepts(stream, line) ==
    IF stream = "dates" THEN ReDateLine(line)
    ELSE IF stream = "times" THEN ReTimeLine(line) \/ line = <<"T","B","D">>
    ELSE IF stream = "allBuyins" THEN line = <<"-">> \/ MatchAt(line, 1, <<"$">>)
    ELSE IF stream = "chips" THEN ReChipsLine(line) \/ line = <<"-">>
    ELSE IF stream = "durations" THEN ReDurationLine(line) \/ line = <<"-">>
    ELSE IF stream = "reentries" THEN ReentryAccepted(line)
    ELSE IF stream = "lateRegs" THEN LateRegAccepted(line)
    ELSE IF stream = "eventNumbers" THEN ReEventNumberLine(line)
    ELSE FALSE

\* the entry a stream takes for an accepted line
Collected(stream, line) ==
    IF stream = "times" THEN ToUpper(RemoveChars(line, SpaceSet))
    ELSE IF stream = "allBuyins"
    THEN IF line = <<"-">> THEN Null ELSE BuyinOfLine(line)
    ELSE IF stream = "chips"
    THEN IF line = <<"-">> THEN Null ELSE Some(ParseIntCommas(line))
    ELSE IF stream = "durations" /\ line = <<"-">> THEN <<>>
    ELSE line

\* the streams a step of the loop has changed
ChangedStreams(before, after) ==
    {c \in ValueStreams \cup {"eventNames"} : after[c] # before[c]}

\* C24: a line is appended to at most one column stream, the stream of the
\* column active when the line is processed, and only if it matches that
\* column's acceptance pattern; a header line is appended to no stream and a
\* non-matching line leaves every value stream unchanged; the stream of event
\* names only ever grows by the joined buffer, never by the line itself
C24_OneStreamPerLine ==
    [][LineRead =>
          /\ \A c \in ValueStreams :
                scan'.result[c] =
                    IF /\ ~IsHeaderLine(scanLine')
                       /\ StreamOf(scan.section) = c
                       /\ Accepts(c, scanLine')
                    THEN Append(scan.result[c], Collected(c, scanLine'))
                    ELSE scan.result[c]
          /\ scan'.result.eventNames \in
                {scan.result.eventNames,
                 Append(scan.result.eventNames, JoinSpace(scan.eventNameBuffer))}
          /\ Cardinality(ChangedStreams(scan.result, scan'.result)) <= 1]_vars

\* after a line the times column did not accept, a time was collected
C24_Witness ==
    /\ scanPos = 3
    /\ scanLine = <<"1","2"," ","P","M">>
    /\ scan.result.times = <<<<"1","2","P","M">>>>
    /\ ChangedStreams(EmptyResult, scan.result) = {"times"}

\* the buffered text is inside a list of games: it has a semicolon and does
\* not end with "(N-day event)"
InGameList(buffer) ==
    /\ Includes(JoinSpace(buffer), <<";">>)
    /\ ~ReDayEventAtEnd(JoinSpace(buffer))

\* the buffer is flushed as one completed name and restarted with the line
FlushedAndRestarted(before, after, line) ==
    /\ after.result.eventNames =
           Append(before.result.eventNames, JoinSpace(before.eventNameBuffer))
    /\ after.eventNameBuffer = <<line>>

\* entering the event-number column flushes the buffer and leaves it empty
FlushedOnEventNumbers(before, after) ==
    /\ after.eventNameBuffer = <<>>
    /\ after.result.eventNames =
           IF Len(before.eventNameBuffer) > 0
           THEN Append(before.result.eventNames, JoinSpace(before.eventNameBuffer))
           ELSE before.result.eventNames

\* a line of the event-names column that is processed with a filled buffer
NameLineOnFilledBuffer ==
    /\ LineRead
    /\ scan.section = "eventNames"
    /\ ~IsHeaderLine(scanLine')
    /\ Len(scan.eventNameBuffer) > 0

\* C25 as stated: while the event-names column is active, every line that
\* matches a starter pattern while the buffer is non-empty flushes the buffer
\* as one completed name and starts a new buffer with that line; the line EV#
\* flushes the buffer and leaves it empty
C25_StarterAlwaysFlushes ==
    [][/\ (NameLineOnFilledBuffer /\ MatchesStarter(scanLine'))
              => FlushedAndRestarted(scan, scan', scanLine')
       /\ (LineRead /\ scanLine' = <<"E","V","#">>) => FlushedOnEventNumbers(scan, scan')]_vars

\* C25 as the code has it: a starter line flushes a non-empty buffer and
\* starts a new one unless the buffered text is inside a list of games
\* (it has a semicolon and does not end with "(N-day event)"); every other
\* line of the column, a starter inside a list of games included, is appended
\* to the buffer and completes no name; the line EV# flushes the buffer and
\* leaves it empty
C25_BufferFlush ==
    [][/\ NameLineOnFilledBuffer =>
              IF MatchesStarter(scanLine') /\ ~InGameList(scan.eventNameBuffer)
              THEN FlushedAndRestarted(scan, scan', scanLine')
              ELSE /\ scan'.eventNameBuffer = Append(scan.eventNameBuffer, scanLine')
                   /\ scan'.result.eventNames = scan.result.eventNames
       /\ (LineRead /\ scanLine' = <<"E","V","#">>) => FlushedOnEventNumbers(scan, scan')]_vars

\* a starter line has completed the buffered name and started the next one
C25_Witness ==
    /\ scan.section = "eventNames"
    /\ scan.result.eventNames = <<<<"M","i","x","e","d",":"," ","R","a","z","z",";"," ","B","a","d","u","g","i"," ","(","3","-","d","a","y"," ","e","v","e","n","t",")">>>>
    /\ scan.eventNameBuffer = <<<<"N","o","-","L","i","m","i","t"," ","H","o","l","d","'","e","m">>>>

\* the names flushed so far followed by the name still in the buffer
NamesSoFar(st) ==
    st.result.eventNames \o
        (IF Len(st.eventNameBuffer) > 0 THEN <<JoinSpace(st.eventNameBuffer)>> ELSE <<>>)

\* a line that is processed while event-names is active, the line that
\* switches from late-reg included
NameLineRead ==
    /\ LineRead
    /\ ~IsHeaderLine(scanLine')
    /\ scan'.section = "eventNames"

\* C37: event-name lines are conserved: a line processed while event-names is
\* active is appended to the buffer or starts a new buffer after the old one
\* was flushed as a name, so the names flushed and buffered, joined in order,
\* grow by exactly that line; every other line leaves that text unchanged and
\* changes the buffer only by flushing it whole; at the end of the page the
\* names handed to the filter are the flushed names and the buffered one
C37_NameLinesConserved ==
    [][/\ NameLineRead =>
              /\ JoinSpace(NamesSoFar(scan')) =
                     IF NamesSoFar(scan) = <<>> THEN scanLine'
                     ELSE JoinSpace(NamesSoFar(scan)) \o <<" ">> \o scanLine'
              /\ scan'.eventNameBuffer \in
                     {Append(scan.eventNameBuffer, scanLine'), <<scanLine'>>}
       /\ (LineRead /\ ~NameLineRead) =>
              /\ NamesSoFar(scan') = NamesSoFar(scan)
              /\ scan'.eventNameBuffer \in {scan.eventNameBuffer, <<>>}
       /\ pc' = "scan_done" =>
              pageSections'[1].eventNames = FilterNames(NamesSoFar(scan))]_vars

\* the page ended with one name flushed and lines still in the buffer, after
\* the switch from late-reg: both names reached the filter
C37_Witness ==
    /\ pc = "scan_done"
    /\ scan.section = "eventNames"
    /\ Len(scan.result.eventNames) = 1
    /\ Len(scan.eventNameBuffer) = 2
    /\ Len(pageSections[1].eventNames) = 2

---------------------------------------------------------------------------
(* Schedule server: the handlers of user_schedules, schedule_conditions    *)
(* and the personal events.  A handler runs from its first statement to    *)
(* its await without interruption, so its statements on the database are   *)
(* one step; ids of the path are the integers SQLite compares them as      *)

ConditionRow(id, u, tid, conditions) ==
    [id |-> id, user_id |-> u, tournament_id |-> tid, conditions |-> conditions]

Personal == <<"P","e","r","s","o","n","a","l">>

\* rows WHERE user_id = ? AND tournament_id = ?
RowsOfEvent(rows, u, tid) == {r \in rows : r.user_id = u /\ r.tournament_id = tid}

\* db.run of POST /api/schedule: INSERT OR IGNORE INTO user_schedules
AddToSchedule(schedules, u, tid) == schedules \cup {ScheduleRow(u, tid)}

\* db.run of DELETE /api/schedule: the user_schedules rows left
RemoveFromSchedule(schedules, u, tid) == schedules \ RowsOfEvent(schedules, u, tid)

\* POST /api/schedule
PostSchedule(u, tid) ==
    /\ pc = "serving"
    /\ userSchedules' = AddToSchedule(userSchedules, u, tid)
    /\ response' = Response("post_schedule", u, tid, 200, {})
    /\ UNCHANGED <<pc, parserVars, saveVars, scanVars, shareVars, scheduleConditions,
                   nextConditionId, tournamentRows, nextTournamentId>>

\* DELETE /api/schedule/:tournamentId, keeping the rows of schedule_conditions
DeleteSchedule_KeepCondition(u, tid) ==
    /\ pc = "serving"
    /\ userSchedules' = RemoveFromSchedule(userSchedules, u, tid)
    /\ response' = Response("delete_schedule", u, tid, 200, {})
    /\ UNCHANGED <<pc, parserVars, saveVars, scanVars, shareVars, scheduleConditions,
                   nextConditionId, tournamentRows, nextTournamentId>>

\* DELETE /api/schedule/:tournamentId
DeleteSchedule(u, tid) ==
    /\ pc = "serving"
    /\ scheduleConditions' = scheduleConditions \ RowsOfEvent(scheduleConditions, u, tid)
    /\ userSchedules' = RemoveFromSchedule(userSchedules, u, tid)
    /\ response' = Response("delete_schedule", u, tid, 200, {})
    /\ UNCHANGED <<pc, parserVars, saveVars, scanVars, shareVars,
                   nextConditionId, tournamentRows, nextTournamentId>>

MaxConditionId == 3

\* PUT /api/schedule/:tournamentId/condition; conditions is the array of the
\* body, Null when the body has neither conditions nor conditionType
PutCondition(u, tid, conditions) ==
    /\ pc = "serving"
    /\ nextConditionId <= MaxConditionId
    /\ IF RowsOfEvent(userSchedules, u, tid) = {}
       THEN /\ response' = Response("put_condition", u, tid, 400, {})
            /\ UNCHANGED <<scheduleConditions, nextConditionId>>
       ELSE IF conditions = Null
       THEN /\ response' = Response("put_condition", u, tid, 400, {})
            /\ UNCHANGED <<scheduleConditions, nextConditionId>>
       ELSE /\ scheduleConditions' =
                   (scheduleConditions \ RowsOfEvent(scheduleConditions, u, tid))
                   \cup {ConditionRow(nextConditionId, u, tid, conditions[1])}
            /\ nextConditionId' = nextConditionId + 1
            /\ response' = Response("put_condition", u, tid, 200, {})
    /\ UNCHANGED <<pc, parserVars, saveVars, scanVars, shareVars, userSchedules,
                   tournamentRows, nextTournamentId>>

\* DELETE /api/schedule/:tournamentId/condition
DeleteCondition(u, tid) ==
    /\ pc = "serving"
    /\ scheduleConditions' = scheduleConditions \ RowsOfEvent(scheduleConditions, u, tid)
    /\ response' = Response("delete_condition", u, tid, 200, {})
    /\ UNCHANGED <<pc, parserVars, saveVars, scanVars, shareVars, userSchedules,
                   nextConditionId, tournamentRows, nextTournamentId>>

\* /^\d{4}-\d{2}-\d{2}$/
ReIsoDate(date) ==
    /\ Len(date) = 10
    /\ \A k \in {1, 2, 3, 4, 6, 7, 9, 10} : IsDigit(date[k])
    /\ date[5] = "-" /\ date[8] = "-"

\* `${months[dateObj.getMonth()]} ${dateObj.getDate()}, ${dateObj.getFullYear()}`
\* for the noon of a date of the calendar
HumanDate(date) ==
    MONTH_FULL[ParseDigits(SubSeq(date, 6, 7))] \o <<" ">>
        \o IntToStr(ParseDigits(SubSeq(date, 9, 10))) \o <<","," ">>
        \o IntToStr(ParseDigits(SubSeq(date, 1, 4)))

\* the personal events joined with the user_schedules rows of a user
PersonalOnSchedule(u) ==
    {t \in tournamentRows :
        /\ t.venue = Personal
        /\ RowsOfEvent(userSchedules, u, t.id) # {}}

MaxTournamentId == 2

\* POST /api/personal-event
PostPersonalEvent(u, type, date, notes) ==
    /\ pc = "serving"
    /\ nextTournamentId <= MaxTournamentId
    /\ IF type \notin {<<"T","r","a","v","e","l"," ","D","a","y">>, <<"D","a","y"," ","O","f","f">>}
       THEN /\ response' = Response("post_personal_event", u, 0, 400, {})
            /\ UNCHANGED <<tournamentRows, nextTournamentId, userSchedules>>
       ELSE IF ~ReIsoDate(date)
       THEN /\ response' = Response("post_personal_event", u, 0, 400, {})
            /\ UNCHANGED <<tournamentRows, nextTournamentId, userSchedules>>
       ELSE IF \E t \in PersonalOnSchedule(u) :
                  t.event_name = type /\ t.date = HumanDate(date)
       THEN /\ response' = Response("post_personal_event", u, 0, 409, {})
            /\ UNCHANGED <<tournamentRows, nextTournamentId, userSchedules>>
       ELSE /\ tournamentRows' = tournamentRows \cup
                   {TournamentRow(nextTournamentId, Personal, type, HumanDate(date),
                                  0, notes, u)}
            /\ nextTournamentId' = nextTournamentId + 1
            /\ userSchedules' = userSchedules \cup {ScheduleRow(u, nextTournamentId)}
            /\ response' = Response("post_personal_event", u, nextTournamentId, 201, {})
    /\ UNCHANGED <<pc, parserVars, saveVars, scanVars, shareVars, scheduleConditions,
                   nextConditionId>>

\* the test of PUT and DELETE /api/personal-event/:id: a personal event with
\* that id joined with a user_schedules row of the caller
IsOwned(u, id) == \E t \in PersonalOnSchedule(u) : t.id = id

\* PUT /api/personal-event/:id
PutPersonalEvent(u, id, notes) ==
    /\ pc = "serving"
    /\ IF ~IsOwned(u, id)
       THEN /\ response' = Response("put_personal_event", u, id, 404, {})
            /\ UNCHANGED tournamentRows
       ELSE /\ tournamentRows' =
                   {IF t.id = id THEN [t EXCEPT !.notes = notes] ELSE t : t \in tournamentRows}
            /\ response' = Response("put_personal_event", u, id, 200, {})
    /\ UNCHANGED <<pc, parserVars, saveVars, scanVars, shareVars, userSchedules,
                   scheduleConditions, nextConditionId, nextTournamentId>>

\* DELETE /api/personal-event/:id
DeletePersonalEvent(u, id) ==
    /\ pc = "serving"
    /\ IF ~IsOwned(u, id)
       THEN /\ response' = Response("delete_personal_event", u, id, 404, {})
            /\ UNCHANGED <<tournamentRows, userSchedules, scheduleConditions>>
       ELSE /\ scheduleConditions' =
                   scheduleConditions \ RowsOfEvent(scheduleConditions, u, id)
            /\ userSchedules' = userSchedules \ RowsOfEvent(userSchedules, u, id)
            /\ tournamentRows' = {t \in tournamentRows : ~(t.id = id /\ t.venue = Personal)}
            /\ response' = Response("delete_personal_event", u, id, 200, {})
    /\ UNCHANGED <<pc, parserVars, saveVars, scanVars, shareVars, nextConditionId,
                   nextTournamentId>>

---------------------------------------------------------------------------
(* Specification of the schedule server: two users, one uploaded           *)
(* tournament, personal events created on the way                          *)

ScheduleUsers == {1, 2}

TournamentIds == 1..MaxTournamentId

\* the bodies of PUT condition: no conditions, an array of one condition
ConditionBodies == {Null, Some(<<<<"I","F","_","B","U","S","T">>>>)}

PersonalTypes == {<<"T","r","a","v","e","l"," ","D","a","y">>, <<"P","a","r","t","y">>}

PersonalDates == {<<"2","0","2","6","-","0","6","-","0","1">>, <<"J","u","n","e"," ","1">>}

PersonalNotes == {<<>>, <<"l","a","t","e">>}

InitSchedule ==
    /\ pc = "serving"
    /\ tournamentRows = {TournamentRow(1, WSOPVenue, <<"N","L","H">>, <<"M","a","y"," ","2","7",","," ","2","0","2","6">>, 500, Null, 1)}
    /\ nextTournamentId = 2
    /\ userSchedules = {}
    /\ scheduleConditions = {}
    /\ nextConditionId = 1
    /\ response = NoResponse
    /\ IdleParsers /\ IdleShare /\ IdleSave /\ IdleScan

NextSchedule ==
    \/ \E u \in ScheduleUsers : \E tid \in TournamentIds : PostSchedule(u, tid)
    \/ \E u \in ScheduleUsers : \E tid \in TournamentIds : DeleteSchedule(u, tid)
    \/ \E u \in ScheduleUsers : \E tid \in TournamentIds : \E c \in ConditionBodies :
          PutCondition(u, tid, c)
    \/ \E u \in ScheduleUsers : \E tid \in TournamentIds : DeleteCondition(u, tid)
    \/ \E u \in ScheduleUsers : \E type \in PersonalTypes : \E date \in PersonalDates :
          \E notes \in PersonalNotes : PostPersonalEvent(u, type, date, notes)
    \/ \E u \in ScheduleUsers : \E id \in TournamentIds : \E notes \in PersonalNotes :
          PutPersonalEvent(u, id, notes)
    \/ \E u \in ScheduleUsers : \E id \in TournamentIds : DeletePersonalEvent(u, id)

SpecSchedule == InitSchedule /\ [][NextSchedule]_vars

---------------------------------------------------------------------------
(* Claims about the schedule server                                        *)

\* C29: every row of schedule_conditions has a row of user_schedules of the
\* same user and tournament, and no two rows of schedule_conditions have the
\* same user and tournament
C29_ConditionsOnSchedule ==
    /\ \A c \in scheduleConditions :
          RowsOfEvent(userSchedules, c.user_id, c.tournament_id) # {}
    /\ \A c, d \in scheduleConditions :
          (c.user_id = d.user_id /\ c.tournament_id = d.tournament_id) => c = d

\* a user with conditions on two events removed one of the events from the
\* schedule: its condition went with it, the other one stayed
C29_Witness ==
    /\ response.op = "delete_schedule"
    /\ nextConditionId = 3
    /\ Cardinality(scheduleConditions) = 1
    /\ \A c \in scheduleConditions : c.user_id = response.user

\* the personal event with an id, as a set of at most one row
PersonalEvent(id) == {t \in tournamentRows : t.id = id /\ t.venue = Personal}

\* C30: a personal event can be updated or deleted only by the user who
\* created it: an update or delete by any other user is refused with 404
\* and leaves the event unchanged
C30_OnlyCreatorChanges ==
    [][(/\ response'.op \in {"put_personal_event", "delete_personal_event"}
        /\ \E t \in PersonalEvent(response'.arg) : t.uploaded_by # response'.user)
          => /\ response'.status = 404
             /\ tournamentRows' = tournamentRows]_vars

---------------------------------------------------------------------------
(* Specification of concurrent mutating requests.  A handler runs up to    *)
(* the await of fs.writeFile inside saveDatabase; other handlers run while *)
(* the write is in flight, and the writes in flight on the one file        *)
(* complete in any order; the handler answers when its own write is done   *)

\* db.export(): the content of the database in memory
Export(schedules, conditions) ==
    [user_schedules |-> schedules, schedule_conditions |-> conditions]

\* a call of saveDatabase: the request it serves and the snapshot it writes
SaveCall(id, op, u, tid, snapshot) ==
    [id |-> id, op |-> op, user |-> u, arg |-> tid, snapshot |-> snapshot,
     state |-> "writing"]

MaxRequests == 3

\* POST /api/schedule up to the await of line 448
PostScheduleCall(u, tid) ==
    /\ pc = "concurrent"
    /\ Cardinality(writes) < MaxRequests
    /\ userSchedules' = AddToSchedule(userSchedules, u, tid)
    /\ writes' = writes \cup
           {SaveCall(Cardinality(writes) + 1, "post_schedule", u, tid,
                     Export(userSchedules', scheduleConditions))}
    /\ UNCHANGED <<pc, parserVars, scanVars, shareVars, scheduleConditions, nextConditionId,
                   tournamentRows, nextTournamentId, response, dbFile>>

\* DELETE /api/schedule/:tournamentId up to the await of line 448
DeleteScheduleCall(u, tid) ==
    /\ pc = "concurrent"
    /\ Cardinality(writes) < MaxRequests
    /\ scheduleConditions' = scheduleConditions \ RowsOfEvent(scheduleConditions, u, tid)
    /\ userSchedules' = RemoveFromSchedule(userSchedules, u, tid)
    /\ writes' = writes \cup
           {SaveCall(Cardinality(writes) + 1, "delete_schedule", u, tid,
                     Export(userSchedules', scheduleConditions'))}
    /\ UNCHANGED <<pc, parserVars, scanVars, shareVars, nextConditionId,
                   tournamentRows, nextTournamentId, response, dbFile>>

\* a write in flight completes: the file holds its snapshot, and the handler
\* that awaited it sends its response
WriteFileDone(id) ==
    /\ pc = "concurrent"
    /\ \E w \in writes :
          /\ w.id = id
          /\ w.state = "writing"
          /\ dbFile' = w.snapshot
          /\ writes' = (writes \ {w}) \cup {[w EXCEPT !.state = "done"]}
          /\ response' = Response(w.op, w.user, w.arg, 200, {})
    /\ UNCHANGED <<pc, parserVars, scanVars, shareVars, scheduleVars>>

InitSave ==
    /\ pc = "concurrent"
    /\ tournamentRows = {TournamentRow(1, WSOPVenue, <<"N","L","H">>, <<"M","a","y"," ","2","7",","," ","2","0","2","6">>, 500, Null, 1)}
    /\ nextTournamentId = 2
    /\ userSchedules = {}
    /\ scheduleConditions = {}
    /\ nextConditionId = 1
    /\ response = NoResponse
    /\ dbFile = Export(userSchedules, scheduleConditions)
    /\ writes = {}
    /\ IdleParsers /\ IdleShare /\ IdleScan

NextSave ==
    \/ \E u \in ScheduleUsers : \E tid \in TournamentIds : PostScheduleCall(u, tid)
    \/ \E u \in ScheduleUsers : \E tid \in TournamentIds : DeleteScheduleCall(u, tid)
    \/ \E id \in 1..MaxRequests : WriteFileDone(id)

SpecSave == InitSave /\ [][NextSave]_vars

\* every request has been answered
AllCompleted == writes # {} /\ \A w \in writes : w.state = "done"

\* C28: under any interleaving of concurrent mutating requests, once all
\* requests in flight have completed the database file written by
\* saveDatabase equals the database in memory
C28_FileIsFinalDatabase ==
    AllCompleted => dbFile = Export(userSchedules, scheduleConditions)

=============================================================================
